---------------------------- MODULE Spec2Model ----------------------------
(***************************************************************************)
(* Model of the guitarbiro note detector: the music theory helpers         *)
(* (guitar.c), the period estimator (period_estimator.c), the detection    *)
(* pipeline (detect.c) and the read callback that feeds the ring buffer    *)
(* (audio_record.c).                                                       *)
(*                                                                         *)
(* Numbers.  Samples are C floats; the model quantises them to multiples   *)
(* of 1/SampleScale, a power of two, so that every product and sum the     *)
(* code computes on them is exact and the model's integers are the code's  *)
(* values times SampleScale (or its square).  The normalized               *)
(* autocorrelation is a double in the code and a fixed point number with   *)
(* NacScale units per 1.0 here; periods are fixed point with PeriodScale   *)
(* units per sample, frequencies are in hundredths of a hertz.             *)
(***************************************************************************)
EXTENDS Integers, Sequences, FiniteSets, Bags, TLC

(***************************************************************************)
(* Fixed point scales                                                      *)
(***************************************************************************)
SampleScale == 2^4
NacScale    == 10^4
PeriodScale == 10^3
FreqScale   == 10^2

\* IEEE not-a-number, as sqrt() of a negative product yields in computeNac
NaN == 0 - 10^8

Abs(v) == IF v < 0 THEN 0 - v ELSE v
Min2(a, b) == IF a < b THEN a ELSE b
SetMax(S) == CHOOSE m \in S : \A k \in S : k <= m

\* comparisons of doubles: every ordered comparison with a NaN is false
FLt(a, b) == a # NaN /\ b # NaN /\ a < b
FGt(a, b) == a # NaN /\ b # NaN /\ a > b
FGe(a, b) == a # NaN /\ b # NaN /\ a >= b

\* floor of the square root, by bisection
RECURSIVE IsqrtIn(_, _, _)
IsqrtIn(v, lo, hi) ==
    IF lo >= hi THEN lo
    ELSE LET mid == (lo + hi + 1) \div 2
         IN  IF mid * mid <= v THEN IsqrtIn(v, mid, hi)
                               ELSE IsqrtIn(v, lo, mid - 1)
Isqrt(v) == IsqrtIn(v, 0, 46340)

\* division of C doubles rounded to the fixed point grid (round half away)
RoundDiv(a, b) ==
    LET s == IF (a < 0) = (b < 0) THEN 1 ELSE 0 - 1
    IN  s * ((2 * Abs(a) + Abs(b)) \div (2 * Abs(b)))

(***************************************************************************)
(* guitar.h / guitar.c                                                     *)
(***************************************************************************)
INVALID_SEMITONE == -32768
GUITAR_STRINGS   == 6
GUITAR_FRETS     == 22
STANDARD_TUNING  == <<43, 38, 34, 29, 24, 19>>
NOTE_INTERVALS_FromC == <<-9, -7, -5, -4, -2, 0, 2>>
NOTE_INTERVALS   == <<0, 2, -9, -7, -5, -4, -2>>

\* character codes of the letters and accidentals a note name is made of
CharCode(c) ==
    CASE c = "A" -> 65 [] c = "B" -> 66 [] c = "C" -> 67 [] c = "D" -> 68
      [] c = "E" -> 69 [] c = "F" -> 70 [] c = "G" -> 71
      [] c = "a" -> 97 [] c = "b" -> 98 [] c = "c" -> 99 [] c = "d" -> 100
      [] c = "e" -> 101 [] c = "f" -> 102 [] c = "g" -> 103
      [] c = "#" -> 35 [] OTHER -> 0

\* name[i] of a C string given as a tuple of characters; 0 is the terminator
CharAt(name, i) == IF i < Len(name) THEN CharCode(name[i + 1]) ELSE 0

\* 2^(j/12), j = 0..11, times 10^4
TwelfthRoots == <<10000, 10595, 11225, 11892, 12599, 13348,
                  14142, 14983, 15874, 16818, 17818, 18877>>
\* 2^((2j-1)/24), j = 0..11, times 10^4: the rounding boundaries of round()
HalfStepRoots == <<9715, 10293, 10905, 11554, 12241, 12968,
                   13740, 14557, 15422, 16339, 17311, 18340>>

\* A0 = 27.5 Hz times 10
A0 == 275

\* table[s mod 12] * A0 * 2^(s div 12), in 1/FreqScale hertz
ScaledPow(table, s) ==
    LET oct == s \div 12
        j   == s % 12
    IN  IF oct >= 0 THEN (A0 * table[j + 1] * 2^oct) \div 1000
                    ELSE (A0 * table[j + 1]) \div (1000 * 2^(0 - oct))

noteToSemitones(name, octave) ==
    LET c0  == CharAt(name, 0)
        c1  == CharAt(name, 1)
        idx == c0 - 65
        acc == IF c1 = 98 THEN 0 - 1 ELSE IF c1 = 35 THEN 1 ELSE 0
        nullChar == IF acc = 0 THEN 1 ELSE 2
    IN  IF ~((c0 >= 65 /\ c0 <= 71) \/ (c0 >= 97 /\ c0 <= 103))
        THEN INVALID_SEMITONE
        ELSE IF CharAt(name, nullChar) # 0
        THEN INVALID_SEMITONE
        ELSE octave * 12 + NOTE_INTERVALS[idx + 1] + acc

\* values a read behind the 7 entries of NOTE_INTERVALS can find: the table
\* is followed by whatever the linker put there
StrayShorts == {0 - 4204, 0, 148}

\* the index name[0] - 'A' the table is read at: 'a' >= 'A' as well, so
\* the branch that subtracts 'a' is never taken
TableIndex(name) == CharAt(name, 0) - 65

\* NOTE_INTERVALS[idx], with stray for a read outside the table
TableAt(idx, stray) ==
    IF idx \in 0..6 THEN NOTE_INTERVALS[idx + 1] ELSE stray

\* noteToSemitones for any accepted first letter
noteToSemitonesAt(name, octave, stray) ==
    LET c0  == CharAt(name, 0)
        c1  == CharAt(name, 1)
        acc == IF c1 = 98 THEN 0 - 1 ELSE IF c1 = 35 THEN 1 ELSE 0
        nullChar == IF acc = 0 THEN 1 ELSE 2
    IN  IF ~((c0 >= 65 /\ c0 <= 71) \/ (c0 >= 97 /\ c0 <= 103))
        THEN INVALID_SEMITONE
        ELSE IF CharAt(name, nullChar) # 0
        THEN INVALID_SEMITONE
        ELSE octave * 12 + TableAt(TableIndex(name), stray) + acc

\* in 1/FreqScale hertz; -1.0 for an invalid name
noteToFrequency(name, octave) ==
    LET semitones == noteToSemitones(name, octave)
    IN  IF semitones = INVALID_SEMITONE THEN 0 - FreqScale
        ELSE ScaledPow(TwelfthRoots, semitones)

SemitoneSearch == (0 - 24)..96

\* round(log2f(frequency / A0) * 12): the semitone whose rounding interval
\* [A0 * 2^((s - 1/2)/12), A0 * 2^((s + 1/2)/12)) holds the frequency
frequencyToSemitones(frequency) ==
    IF frequency <= 0 THEN INVALID_SEMITONE
    ELSE CHOOSE s \in SemitoneSearch :
            /\ ScaledPow(HalfStepRoots, s) <= frequency
            /\ frequency < ScaledPow(HalfStepRoots, s + 1)

\* frets[i]: note - tuning[i], or -1 when the unsigned comparison with
\* fretsNumber finds it too large (a negative short converts to a huge
\* unsigned value)
FretOf_NoLimit(note, open, fretsNumber) ==
    LET d == note - open
    IN  IF d < 0 THEN 0 - 1 ELSE d

FretOf(note, open, fretsNumber) ==
    LET d == note - open
    IN  IF d < 0 \/ d > fretsNumber THEN 0 - 1 ELSE d

noteToFretsArray(note, tuning, strings, fretsNumber) ==
    [i \in 1..strings |-> FretOf(note, tuning[i], fretsNumber)]

\* variant: every string counts as playable
noteToFrets_AllStrings(note, tuning, strings, fretsNumber) == strings

noteToFrets(note, tuning, strings, fretsNumber) ==
    Cardinality({i \in 1..strings :
                    noteToFretsArray(note, tuning, strings, fretsNumber)[i] >= 0})

(***************************************************************************)
(* period_estimator.c                                                      *)
(***************************************************************************)
\* x[i] of the C array held in the sequence x
X(x, i) == x[i + 1]

\* sum over i in [0, cnt) of x[a + i] * x[b + i].  The terms are shifted to
\* be positive and summed as the cardinality of a bag.
ProdShift == 2^8 + 1
SumProd(x, a, b, cnt) ==
    IF cnt <= 0 THEN 0
    ELSE BagCardinality([i \in 0..(cnt - 1) |->
                            X(x, a + i) * X(x, b + i) + ProdShift])
         - ProdShift * cnt

\* sum over i in [lo, hi] of x[i]^2
SumSq(x, lo, hi) == SumProd(x, lo, lo, hi - lo + 1)

\* the value of sumSqBeg after the first loop of computeNac: i in [0, n - minP]
SumSqBegInit(x, n, minP) == SumSq(x, 0, n - minP)

\* the value of sumSqEnd after the first loop: x[minP - 2]^2, then j in
\* [minP - 1, n - 1]
SumSqEndInit(x, n, minP) ==
    X(x, minP - 2) * X(x, minP - 2) + SumSq(x, minP - 1, n - 1)

\* nac[p]: by iteration p the loop over the lags has subtracted x[n - q]^2
\* from sumSqBeg and x[q - 1]^2 from sumSqEnd for every q in [minP - 1, p]
NacAt(x, n, minP, p, begInit, endInit) ==
    LET ac       == SumProd(x, 0, p, n - p)
        sumSqBeg == begInit - SumSq(x, n - p, n - (minP - 1))
        sumSqEnd == endInit - SumSq(x, minP - 2, p - 1)
    IN  IF sumSqBeg # 0 /\ sumSqEnd # 0
        THEN IF sumSqBeg * sumSqEnd < 0 THEN NaN
             ELSE RoundDiv(ac * NacScale, Isqrt(sumSqBeg * sumSqEnd))
        ELSE 0

\* sumSqBeg and sumSqEnd as iteration p of computeNac uses them
SumSqBegAt(x, n, minP, p) ==
    SumSqBegInit(x, n, minP) - SumSq(x, n - p, n - (minP - 1))

SumSqEndAt(x, n, minP, p) ==
    SumSqEndInit(x, n, minP) - SumSq(x, minP - 2, p - 1)

\* the computeNac that sums both energies anew for every lag: i in [0, n - p)
DirectSumSqBeg(x, n, p) == SumSq(x, 0, n - p - 1)

DirectSumSqEnd(x, n, p) == SumSq(x, p, n - 1)

DirectNacAt(x, n, p) ==
    LET ac       == SumProd(x, 0, p, n - p)
        sumSqBeg == DirectSumSqBeg(x, n, p)
        sumSqEnd == DirectSumSqEnd(x, n, p)
    IN  IF sumSqBeg # 0 /\ sumSqEnd # 0
        THEN RoundDiv(ac * NacScale, Isqrt(sumSqBeg * sumSqEnd))
        ELSE 0

\* the nac buffer, indices 1..maxP + 1; the entries below minP - 1 are not
\* written by computeNac
computeNac(x, n, minP, maxP) ==
    LET begInit == SumSqBegInit(x, n, minP)
        endInit == SumSqEndInit(x, n, minP)
    IN  [p \in 1..(maxP + 1) |->
            IF p >= minP - 1 THEN NacAt(x, n, minP, p, begInit, endInit)
                             ELSE 0] \o <<>>

\* the index the loop of findPeak ends with: the first lag holding the
\* largest value, where a NaN never compares greater and a NaN at minP is
\* never replaced
PeakIndex(nac, minP, maxP) ==
    IF nac[minP] = NaN THEN minP
    ELSE LET cand == {p \in minP..maxP : nac[p] # NaN}
             top  == SetMax({nac[p] : p \in cand})
         IN  CHOOSE p \in cand :
                /\ nac[p] = top
                /\ \A r \in cand : nac[r] = top => p <= r

\* variant: the shift is applied whatever its size
findPeak_AnyShift(nac, minP, maxP) ==
    LET best  == PeakIndex(nac, minP, maxP)
        mid   == nac[best]
        left  == nac[best - 1]
        right == nac[best + 1]
        anyNaN == mid = NaN \/ left = NaN \/ right = NaN
        den   == 2 * mid - left - right
    IN  IF FLt(mid, left) /\ FLt(mid, right)
        THEN [best |-> 0 - 1, period |-> 0]
        ELSE IF ~anyNaN /\ den # 0
        THEN [best |-> best,
              period |-> best * PeriodScale
                         + RoundDiv(PeriodScale * (right - left), 2 * den)]
        ELSE [best |-> best, period |-> best * PeriodScale]

\* [best, period]; best = -1 and period = 0 when there is no peak
findPeak(nac, minP, maxP) ==
    LET best  == PeakIndex(nac, minP, maxP)
        mid   == nac[best]
        left  == nac[best - 1]
        right == nac[best + 1]
        anyNaN == mid = NaN \/ left = NaN \/ right = NaN
        den   == 2 * mid - left - right
    IN  IF FLt(mid, left) /\ FLt(mid, right)
        THEN [best |-> 0 - 1, period |-> 0]
        ELSE IF ~anyNaN /\ den # 0
                /\ 5 * Abs(right - left) < 2 * best * Abs(den)
        THEN [best |-> best,
              period |-> best * PeriodScale
                         + RoundDiv(PeriodScale * (right - left), 2 * den)]
        ELSE [best |-> best, period |-> best * PeriodScale]

\* (int)(k * period / mul + 0.5)
SubMulP(period, k, mul) ==
    (2 * k * period + PeriodScale * mul) \div (2 * PeriodScale * mul)

\* variant: every sub-multiple counts as strong
SubsAllStrong_Any(nac, period, maxNac, mul) == TRUE

SubsAllStrong(nac, period, maxNac, mul) ==
    \A k \in 1..(mul - 1) :
        ~FLt(10 * nac[SubMulP(period, k, mul)], 9 * nac[maxNac])

\* variant: the period is returned as it came
fixOctaves_Keep(nac, minP, period, maxNac) == period

fixOctaves(nac, minP, period, maxNac) ==
    LET maxMul == maxNac \div minP
        mul    == SetMax({m \in 1..maxMul :
                             SubsAllStrong(nac, period, maxNac, m)})
    IN  RoundDiv(period, mul)

\* the indices subMulP at which the loops of fixOctaves read nac: every k of
\* every mul from maxNac / minP down to the one the outer loop stops at
FixOctavesReads(nac, minP, period, maxNac) ==
    LET maxMul == maxNac \div minP
        found  == SetMax({m \in 1..maxMul :
                             SubsAllStrong(nac, period, maxNac, m)})
    IN  UNION {{SubMulP(period, k, m) : k \in 1..(m - 1)} : m \in found..maxMul}

\* [period, q, periodInt, set]: set tells whether *periodInt was written
estimatePeriod(x, n, minP, maxP) ==
    LET nac  == computeNac(x, n, minP, maxP)
        peak == findPeak(nac, minP, maxP)
    IN  IF peak.best = 0 - 1
        THEN [period |-> 0, q |-> 0, periodInt |-> 0, set |-> FALSE]
        ELSE [period    |-> fixOctaves(nac, minP, peak.period, peak.best),
              q         |-> nac[peak.best],
              periodInt |-> peak.best,
              set       |-> TRUE]

(***************************************************************************)
(* detect.c: constants and the conditions of detectAnalyze/analyzeFiltered *)
(***************************************************************************)
PEAKS_SIZE == 100
\* sizeof(float), also the bytes per frame of the mono float stream
SizeofFloat == 4

\* variant: any quality that is a number passes
QualityOk_Any(q) == q # NaN

\* quality >= MINIMUM_QUALITY (0.85); false for a NaN quality
QualityOk(q) == q # NaN /\ 100 * q >= 85 * NacScale

\* variant: any peak above zero counts
AboveNoise_Zero(peak) == peak > 0

\* peak > NOISE_THRESHOLD (0.1)
AboveNoise(peak) == 10 * peak > 1 * SampleScale

\* variant: only a rise of more than 1.2 counts
IsQuickRaise_Tenfold(peak, prev) == 10 * (peak - prev) > 12 * SampleScale

\* peak - context->peaks[context->lastPeak] > RAISE_THRESHOLD (0.12)
IsQuickRaise(peak, prev) == 100 * (peak - prev) > 12 * SampleScale

\* variant: one maxPeriod of samples is enough
NotEnough_OnePeriod(available, maxP) == available < maxP

\* available < 2 * context->maxPeriod
NotEnough(available, maxP) == available < 2 * maxP

\* variant: the timeout is two seconds
IsStale_TwoSeconds(dropped, r) == dropped > 2 * r

\* context->droppedSamples > context->rate
IsStale(dropped, r) == dropped > r

\* variant: every block passes
PassesGate_Any(period, intPeriod, q) == TRUE

\* isfinite(period) && intPeriod > 0 && quality >= MINIMUM_QUALITY; the
\* period of the model is always finite
PassesGate(period, intPeriod, q) == intPeriod > 0 /\ QualityOk(q)

\* variant: the distance is taken modulo 7
NoteDelta_Mod7(note, last) == Abs(note - last) % 7

\* abs(note - context->lastDetected) % 12
NoteDelta(note, last) == Abs(note - last) % 12

\* variant: the same note counts as a new note
IsNewNote_Unison(quickRaise, note, last) ==
    \/ quickRaise
    \/ NoteDelta(note, last) # 7
    \/ last = INVALID_SEMITONE

\* the condition under which analyzeFiltered highlights the frets
IsNewNote(quickRaise, note, last) ==
    \/ quickRaise
    \/ (NoteDelta(note, last) # 0 /\ NoteDelta(note, last) # 7)
    \/ last = INVALID_SEMITONE

\* variant: the read pointer advances by the number of samples
AdvanceBytes_Samples(availableBytes) == availableBytes \div SizeofFloat

\* the argument of soundio_ring_buffer_advance_read_ptr
AdvanceBytes(availableBytes) == availableBytes

\* number of iterations of: for(j = 0; j < size - period; j += period)
PeakIterations(size, period) ==
    IF size - period <= 0 THEN 0 ELSE (size - period - 1) \div period + 1

\* the peak of the period starting at j: max of fabs(buf[j + i]), i < period
PeakOf(buf, j, period) == SetMax({Abs(X(buf, j + i)) : i \in 0..(period - 1)})

\* the peaks of the successive periods of the block, in order
BlockPeaks(buf, size, period) ==
    [m \in 1..PeakIterations(size, period) |->
        PeakOf(buf, (m - 1) * period, period)] \o <<>>

\* variant: every peak is compared with the one stored before the block
PrevPeak_BlockStart(pk, m, oldPeaks, oldLastPeak) == oldPeaks[oldLastPeak]

\* the value of peaks[lastPeak] the m-th peak of the block is compared with
PrevPeak(pk, m, oldPeaks, oldLastPeak) ==
    IF m = 1 THEN oldPeaks[oldLastPeak] ELSE pk[m - 1]

\* context->peaks after the loop stored the peaks pk after lastPeak
StorePeaks(oldPeaks, oldLastPeak, pk) ==
    [i \in 0..(PEAKS_SIZE - 1) |->
        LET ms == {m \in 1..Len(pk) : (oldLastPeak + m) % PEAKS_SIZE = i}
        IN  IF ms = {} THEN oldPeaks[i] ELSE pk[SetMax(ms)]]

\* rate / period: the frequency in 1/FreqScale hertz
Frequency(r, period) == (r * FreqScale * PeriodScale) \div period

AllZero(buf) == \A i \in 1..Len(buf) : buf[i] = 0

(***************************************************************************)
(* The sound card signal.  A signal is a sequence of segments, each a      *)
(* triangle wave of period p and amplitude a (a = 0: silence, p = 0:       *)
(* crackle) lasting up to stream position upto.                            *)
(***************************************************************************)
Tri(t, p, a) ==
    LET q == p \div 4
        m == t % p
    IN  IF m <= q THEN (a * m) \div q
        ELSE IF m <= 3 * q THEN (a * (2 * q - m)) \div q
        ELSE 0 - ((a * (4 * q - m)) \div q)

\* crackle: samples without a period in the search range
Crackle(t, a) == (((t * t) \div 7 + (t * t) \div 11) % (2 * a + 1)) - a

Wave(t, p, a) ==
    IF a = 0 THEN 0
    ELSE IF p = 0 THEN Crackle(t, a)
    ELSE Tri(t, p, a)

SampleAt(sig, t) ==
    LET k == CHOOSE k \in 1..Len(sig) :
                /\ t < sig[k].upto
                /\ (k = 1 \/ t >= sig[k - 1].upto)
    IN  Wave(t, sig[k].p, sig[k].a)

SignalLen(sig) == sig[Len(sig)].upto

Seg(p, a, upto) == [p |-> p, a |-> a, upto |-> upto]

(***************************************************************************)
(* Bounds and inputs of the model                                          *)
(***************************************************************************)
\* the analyzer is scheduled before more than MaxFill frames are unread
MaxFill == 516

\* the sample rates of the sessions: detectInit takes any rate above 0, and
\* 5280 is the lowest one whose minPeriod is 2, the least estimatePeriod
\* accepts; the stream's rate is whatever the device offers
Rates == {5280}

\* the values an uninitialised int may hold when it is read
UninitInt == {0 - 1, 1}

\* a session: the signal at the sound card and the frame counts
\* (frameCountMax) the backend calls the read callback with
Scenario(sig, frames) == [sig |-> sig, frames |-> frames]

Scenarios ==
    { Scenario(<<Seg(12, 9, 387), Seg(8, 9, 774), Seg(16, 9, 1161)>>,
               {129, 258}),
      Scenario(<<Seg(12, 9, 387), Seg(12, 3, 774), Seg(12, 9, 1161)>>,
               {129, 258}),
      Scenario(<<Seg(12, 9, 387), Seg(0, 9, 774), Seg(12, 1, 1161)>>,
               {129, 258}),
      Scenario(<<Seg(4, 9, 516), Seg(12, 9, 903), Seg(400, 12, 1290)>>,
               {129, 258}),
      Scenario(<<Seg(12, 9, 516), Seg(12, 0, 12 * 516),
                 Seg(12, 9, 13 * 516)>>, {516}),
      Scenario(<<Seg(12, 9, 516), Seg(12, 0, 24 * 516)>>, {516}),
      Scenario(<<Seg(12, 9, 4 * 516), Seg(12, 3, 5 * 516),
                 Seg(12, 9, 6 * 516)>>, {516}),
      Scenario(<<Seg(12, 9, 516), Seg(4, 9, 13 * 516)>>, {516}) }

(***************************************************************************)
(* State                                                                   *)
(***************************************************************************)
VARIABLES
    scen,            \* the session's signal and callback frame counts
    rate,            \* DetectContext.rate
    minPeriod,       \* DetectContext.minPeriod
    maxPeriod,       \* DetectContext.maxPeriod
    lastDetected,    \* DetectContext.lastDetected
    peaks,           \* DetectContext.peaks
    lastPeak,        \* DetectContext.lastPeak
    droppedSamples,  \* DetectContext.droppedSamples
    ringData,        \* the samples between the ring's read and write offset
    readOffset,      \* the ring's read offset, bytes
    writeOffset,     \* the ring's write offset, bytes
    status,          \* RecordContext.status
    gFrets,          \* the highlighted frets of the GUI
    pc,              \* where the recording thread is in detectAnalyze
    availableBytes,  \* detectAnalyze's local of that name
    events,          \* history: the calls made to the GUI, in order
    analyzed,        \* history: samples handed to estimatePeriod so far
    zeroSinceOn,     \* history: every block since the last NoteOn was zero
    last,            \* history: the locals of the last detectAnalyze call
    cb,              \* readCallback's position and locals, step by step
    keepRecording,   \* GUIContext.keepRecording
    recordingThread, \* GUIContext.recordingThread (0: none)
    guiPc,           \* where the GTK main thread is in its handlers
    wasRecording,    \* settingsApply's local of that name
    recordButton,    \* the record button is sensitive
    device,          \* AudioContext.device is set
    workers,         \* the recording threads: position and locals
    recHist,         \* history: what the recording threads and the GUI did
    fn               \* a function under test: its input and its result

ctxVars  == <<rate, minPeriod, maxPeriod, lastDetected, peaks, lastPeak,
              droppedSamples>>
ringVars == <<ringData, readOffset, writeOffset>>
histVars == <<events, analyzed, zeroSinceOn, last>>
guiVars  == <<keepRecording, recordingThread, guiPc, wasRecording,
              recordButton, device, workers, recHist>>
\* the variables of the other specifications of this module
sideVars == <<cb, guiVars, fn>>
vars == <<scen, ctxVars, ringVars, status, gFrets, pc, availableBytes,
          histVars, sideVars>>

NoFrets == [i \in 1..GUITAR_STRINGS |-> 0 - 1]
NoteOff == [type |-> "NoteOff", note |-> INVALID_SEMITONE, frets |-> NoFrets]
NoteOn(note, frets) == [type |-> "NoteOn", note |-> note, frets |-> frets]

NoCall == [kind |-> "none", n |-> 0, q |-> 0, note |-> INVALID_SEMITONE,
           period |-> 0, quick |-> FALSE, minS |-> FALSE, rise |-> 0,
           stale |-> FALSE, zero |-> FALSE, prev |-> INVALID_SEMITONE]

\* soundio_ring_buffer_fill_count / free_count / capacity of audioRecord
RING_BUFFER_DURATION == 30
Capacity == RING_BUFFER_DURATION * rate * SizeofFloat
FillCount == writeOffset - readOffset
FreeCount == Capacity - FillCount

(***************************************************************************)
(* The values of the variables a specification does not use                *)
(***************************************************************************)
\* readCallback is not running
CbIdle == [pc |-> "idle", freeBytes |-> 0, writeFrames |-> 0,
           frameCount |-> 0, framesLeft |-> 0, copied |-> 0]

\* no recording thread was ever started
NoWorker == [pc |-> "none", err |-> 0, status |-> 0, stream |-> "none",
             ring |-> "uninit", detection |-> "null", drains |-> 0,
             looped |-> FALSE]

NoRecHist == [misuse |-> FALSE]

NoFn == [op |-> "none", arg |-> <<>>, res |-> <<>>]

ThreadsIdle ==
    /\ cb = CbIdle
    /\ keepRecording = 0
    /\ recordingThread = 0
    /\ guiPc = "idle"
    /\ wasRecording = 0
    /\ recordButton = TRUE
    /\ device = TRUE
    /\ workers = <<>>
    /\ recHist = NoRecHist

SideIdle == ThreadsIdle /\ fn = NoFn

(***************************************************************************)
(* detectInit                                                              *)
(***************************************************************************)
DetectMinPeriod(r) == (r * FreqScale) \div noteToFrequency(<<"E">>, 7)
DetectMaxPeriod(r) ==
    LET f == noteToFrequency(<<"E">>, 1)
    IN  (r * FreqScale + f - 1) \div f

Init ==
    /\ scen \in Scenarios
    /\ rate \in Rates
    /\ minPeriod = DetectMinPeriod(rate)
    /\ maxPeriod = DetectMaxPeriod(rate)
    /\ lastDetected = INVALID_SEMITONE
    /\ peaks = [i \in 0..(PEAKS_SIZE - 1) |-> 0]
    /\ lastPeak = PEAKS_SIZE - 1
    /\ droppedSamples = 0
    /\ ringData = <<>>
    /\ readOffset = 0
    /\ writeOffset = 0
    /\ status = 0
    /\ gFrets = NoFrets
    /\ pc = "idle"
    /\ availableBytes = 0
    /\ events = <<>>
    /\ analyzed = 0
    /\ zeroSinceOn = FALSE
    /\ last = NoCall
    /\ SideIdle

(***************************************************************************)
(* readCallback: the producer                                              *)
(***************************************************************************)
readCallback(frameCountMin, frameCountMax) ==
    /\ status = 0
    /\ LET freeCount   == FreeCount \div SizeofFloat
           writeFrames == Min2(freeCount, frameCountMax)
           pos         == writeOffset \div SizeofFloat
       IN  IF freeCount < frameCountMin
           THEN /\ status' = 1
                /\ UNCHANGED ringVars
           ELSE /\ writeFrames > 0
                /\ pos + writeFrames <= SignalLen(scen.sig)
                /\ FillCount \div SizeofFloat + writeFrames <= MaxFill
                /\ ringData' = ringData \o
                       [i \in 1..writeFrames |->
                           SampleAt(scen.sig, pos + i - 1)]
                /\ writeOffset' = writeOffset + writeFrames * SizeofFloat
                /\ UNCHANGED <<readOffset, status>>
    /\ UNCHANGED <<scen, ctxVars, gFrets, pc, availableBytes, histVars,
                   sideVars>>

ReadCallback == \E f \in scen.frames : readCallback(0, f)

(***************************************************************************)
(* analyzeFiltered on the context ctx = [lastDetected, peaks, lastPeak,    *)
(* droppedSamples]: the new context, the GUI calls made and the locals     *)
(***************************************************************************)
\* variant: an unplayable block is not counted
UnplayableCtx_NoCount(ctx, size) == ctx

\* the note cannot be played: the block counts as dropped
UnplayableCtx(ctx, size) == [ctx EXCEPT !.droppedSamples = @ + size]

\* the context after the loop over the periods stored the peaks pk and the
\* dropped samples counter was reset
LoopedCtx(ctx, pk) ==
    [ctx EXCEPT !.peaks = StorePeaks(ctx.peaks, ctx.lastPeak, pk),
                !.lastPeak = (ctx.lastPeak + Len(pk)) % PEAKS_SIZE,
                !.droppedSamples = 0]

\* variant: the note is kept when the highlights are reset
SilenceCtx_KeepNote(looped) == looped

\* no peak above the noise threshold
SilenceCtx(looped) == [looped EXCEPT !.lastDetected = INVALID_SEMITONE]

\* a new note
NoteOnCtx(looped, note) == [looped EXCEPT !.lastDetected = note]

\* variant: the timeout forgets the note but keeps the count
StaleCtx_KeepCount(ctx) == [ctx EXCEPT !.lastDetected = INVALID_SEMITONE]

\* no valid note for more than a second: the note is forgotten and the
\* count restarts
StaleCtx(ctx) == [ctx EXCEPT !.lastDetected = INVALID_SEMITONE,
                             !.droppedSamples = 0]

\* the block failed the first filter of detectAnalyze
GatedCtx(ctx, available) == [ctx EXCEPT !.droppedSamples = @ + available]

analyzeFiltered(ctx, buf, size, freq, period) ==
    LET note  == frequencyToSemitones(freq)
        frets == noteToFretsArray(note, STANDARD_TUNING, GUITAR_STRINGS,
                                  GUITAR_FRETS)
        valid == noteToFrets(note, STANDARD_TUNING, GUITAR_STRINGS,
                             GUITAR_FRETS)
        pk    == BlockPeaks(buf, size, period)
        rises == {pk[m] - PrevPeak(pk, m, ctx.peaks, ctx.lastPeak) :
                     m \in 1..Len(pk)}
        quickRaise   == \E m \in 1..Len(pk) :
                           IsQuickRaise(pk[m],
                               PrevPeak(pk, m, ctx.peaks, ctx.lastPeak))
        minSurpassed == \E m \in 1..Len(pk) : AboveNoise(pk[m])
        looped == LoopedCtx(ctx, pk)
        info  == [note |-> note, quick |-> quickRaise,
                  minS |-> minSurpassed,
                  rise |-> IF rises = {} THEN 0 ELSE SetMax(rises)]
    IN  IF valid = 0
        THEN [ctx  |-> UnplayableCtx(ctx, size),
              gui  |-> <<>>,
              kind |-> "unplayable",
              info |-> [note |-> note, quick |-> FALSE, minS |-> FALSE,
                        rise |-> 0]]
        ELSE IF ~minSurpassed
        THEN [ctx  |-> SilenceCtx(looped),
              gui  |-> <<NoteOff>>,
              kind |-> "silence",
              info |-> info]
        ELSE IF IsNewNote(quickRaise, note, ctx.lastDetected)
        THEN [ctx  |-> NoteOnCtx(looped, note),
              gui  |-> <<NoteOn(note, frets)>>,
              kind |-> "noteon",
              info |-> info]
        ELSE [ctx  |-> looped,
              gui  |-> <<>>,
              kind |-> "hold",
              info |-> info]

(***************************************************************************)
(* detectAnalyze: the consumer.  The fill count is read first; the         *)
(* callback may run before the rest of the function does.                  *)
(***************************************************************************)
DetectAnalyzeEnter ==
    /\ pc = "idle"
    /\ availableBytes' = FillCount
    /\ IF NotEnough(FillCount \div SizeofFloat, maxPeriod)
       THEN /\ pc' = "idle"
            /\ last' = [NoCall EXCEPT !.kind = "short",
                                      !.n = FillCount \div SizeofFloat,
                                      !.prev = lastDetected]
       ELSE /\ pc' = "estimate"
            /\ last' = last
    /\ UNCHANGED <<scen, ctxVars, ringVars, status, gFrets, events,
                   analyzed, zeroSinceOn, sideVars>>

\* the effect of guiHighlightFrets / guiResetHighlights on gFrets
ApplyGui(frets, calls) ==
    IF calls = <<>> THEN frets ELSE calls[Len(calls)].frets

DetectAnalyzeRun ==
    /\ pc = "estimate"
    /\ LET available == availableBytes \div SizeofFloat
           stale == IsStale(droppedSamples, rate)
           ctx   == [lastDetected   |-> lastDetected,
                     peaks          |-> peaks,
                     lastPeak       |-> lastPeak,
                     droppedSamples |-> droppedSamples]
           ctx0  == IF stale THEN StaleCtx(ctx) ELSE ctx
           gui0  == IF stale THEN <<NoteOff>> ELSE <<>>
           buf   == SubSeq(ringData, 1, available)
       IN  \E est \in {estimatePeriod(buf, available, minPeriod, maxPeriod)} :
           \E intPeriod \in IF est.set THEN {est.periodInt} ELSE UninitInt :
           \E res \in
                {IF PassesGate(est.period, intPeriod, est.q)
                 THEN analyzeFiltered(ctx0, buf, available,
                          Frequency(rate, est.period), intPeriod)
                 ELSE [ctx  |-> GatedCtx(ctx0, available),
                       gui  |-> <<>>,
                       kind |-> "gated",
                       info |-> [note |-> INVALID_SEMITONE,
                                 quick |-> FALSE, minS |-> FALSE,
                                 rise |-> 0]]} :
           LET gui == gui0 \o res.gui
               adv == AdvanceBytes(availableBytes)
           IN  /\ lastDetected' = res.ctx.lastDetected
               /\ peaks' = res.ctx.peaks
               /\ lastPeak' = res.ctx.lastPeak
               /\ droppedSamples' = res.ctx.droppedSamples
               /\ events' = events \o gui
               /\ gFrets' = ApplyGui(gFrets, gui)
               /\ readOffset' = readOffset + adv
               /\ ringData' = SubSeq(ringData, adv \div SizeofFloat + 1,
                                     Len(ringData))
               /\ analyzed' = analyzed + available
               /\ zeroSinceOn' = IF res.kind = "noteon" THEN TRUE
                                 ELSE zeroSinceOn /\ AllZero(buf)
               /\ last' = [kind |-> res.kind, n |-> available,
                           q |-> est.q, note |-> res.info.note,
                           period |-> intPeriod,
                           quick |-> res.info.quick, minS |-> res.info.minS,
                           rise |-> res.info.rise, stale |-> stale,
                           zero |-> AllZero(buf), prev |-> lastDetected]
    /\ pc' = "idle"
    /\ UNCHANGED <<scen, rate, minPeriod, maxPeriod, writeOffset, status,
                   availableBytes, sideVars>>

Next == ReadCallback \/ DetectAnalyzeEnter \/ DetectAnalyzeRun

Spec == Init /\ [][Next]_vars

(***************************************************************************)
(* The ring buffer between readCallback and detectAnalyze, with the        *)
(* callback taken one soundio call at a time.  This specification follows  *)
(* the byte offsets only: detectAnalyze touches the ring through           *)
(* fill_count, read_ptr and advance_read_ptr, whatever the block holds, so *)
(* the detection state and the samples are left out of it.                 *)
(***************************************************************************)
\* the frames of a sixth of the ring
RingChunk == (RING_BUFFER_DURATION * 5280) \div 6

\* the session of the ring specification: the backend calls the callback
\* with frameCountMax of a third or a half of the ring
RingScenario == Scenario(<<>>, {2 * RingChunk, 3 * RingChunk})

\* frameCountMin of the backend's calls
RingFrameMins == {0, RingChunk}

\* the session ends after the callback published this many bytes
RingSessionBytes == 3 * Capacity

\* the frame counts soundio_instream_begin_read may deliver for a request:
\* all of it, a part, nothing
Delivered(request) == {request, (2 * request) \div 3, 0}

\* a session that has just been set up: detectInit done, the ring empty
SessionStartAt(sc, rates) ==
    /\ scen = sc
    /\ rate \in rates
    /\ minPeriod = DetectMinPeriod(rate)
    /\ maxPeriod = DetectMaxPeriod(rate)
    /\ lastDetected = INVALID_SEMITONE
    /\ peaks = [i \in 0..(PEAKS_SIZE - 1) |-> 0]
    /\ lastPeak = PEAKS_SIZE - 1
    /\ droppedSamples = 0
    /\ ringData = <<>>
    /\ readOffset = 0
    /\ writeOffset = 0
    /\ status = 0
    /\ gFrets = NoFrets
    /\ pc = "idle"
    /\ availableBytes = 0
    /\ events = <<>>
    /\ analyzed = 0
    /\ zeroSinceOn = FALSE
    /\ last = NoCall

SessionStart(sc) == SessionStartAt(sc, Rates)

RingInit == SessionStart(RingScenario) /\ SideIdle

\* the variables the ring specification never changes
ringQuiet == <<scen, ctxVars, ringData, gFrets, histVars, guiVars, fn>>

\* readCallback up to the loop: the status test, the free count, the
\* overflow test, writeFrames and its assertion
RingCallbackEnter(frameCountMin, frameCountMax) ==
    /\ cb.pc = "idle"
    /\ status = 0
    /\ writeOffset < RingSessionBytes
    /\ LET freeBytes   == FreeCount
           freeCount   == freeBytes \div SizeofFloat
           writeFrames == Min2(freeCount, frameCountMax)
       IN  IF freeCount < frameCountMin
           THEN /\ status' = 1
                /\ cb' = cb
           ELSE /\ status' = status
                /\ cb' = IF writeFrames = 0
                         THEN [CbIdle EXCEPT !.pc = "aborted"]
                         ELSE [pc |-> "read", freeBytes |-> freeBytes,
                               writeFrames |-> writeFrames,
                               frameCount |-> writeFrames,
                               framesLeft |-> writeFrames, copied |-> 0]
    /\ UNCHANGED <<readOffset, writeOffset, pc, availableBytes, ringQuiet>>

\* one iteration of the loop: begin_read asks for frameCount frames, the
\* frames delivered are copied at writePtr, end_read, framesLeft -= frameCount
RingCallbackRead ==
    /\ cb.pc = "read"
    /\ \E outcome \in {"ok", "beginError", "endError"} :
       \E got \in Delivered(cb.frameCount) :
          CASE outcome = "beginError" ->
                  /\ status' = 2
                  /\ cb' = CbIdle
            [] outcome = "ok" /\ got = 0 ->
                  /\ status' = status
                  /\ cb' = [cb EXCEPT !.pc = "advance", !.frameCount = 0]
            [] outcome = "endError" /\ got > 0 ->
                  /\ status' = 3
                  /\ cb' = [CbIdle EXCEPT !.copied = cb.copied + got,
                                          !.freeBytes = cb.freeBytes]
            [] outcome = "ok" /\ got > 0 ->
                  /\ status' = status
                  /\ cb' = [cb EXCEPT
                              !.copied = @ + got,
                              !.frameCount = got,
                              !.framesLeft = @ - got,
                              !.pc = IF cb.framesLeft - got > 0
                                     THEN "read" ELSE "advance"]
            [] OTHER -> FALSE
    /\ UNCHANGED <<readOffset, writeOffset, pc, availableBytes, ringQuiet>>

\* soundio_ring_buffer_advance_write_ptr(rc->ringBuffer, advanceBytes)
RingCallbackAdvance ==
    /\ cb.pc = "advance"
    /\ writeOffset' = writeOffset + cb.writeFrames * SizeofFloat
    /\ cb' = [cb EXCEPT !.pc = "idle"]
    /\ UNCHANGED <<readOffset, status, pc, availableBytes, ringQuiet>>

\* detectAnalyze up to the early return
RingAnalyzeEnter ==
    /\ pc = "idle"
    /\ cb.pc # "aborted"
    /\ availableBytes' = FillCount
    /\ pc' = IF NotEnough(FillCount \div SizeofFloat, maxPeriod)
             THEN "idle" ELSE "estimate"
    /\ UNCHANGED <<readOffset, writeOffset, status, cb, ringQuiet>>

\* the rest of detectAnalyze: the block at the read pointer is analyzed and
\* the read pointer advanced
RingAnalyzeRun ==
    /\ pc = "estimate"
    /\ cb.pc # "aborted"
    /\ readOffset' = readOffset + AdvanceBytes(availableBytes)
    /\ pc' = "idle"
    /\ UNCHANGED <<writeOffset, status, availableBytes, cb, ringQuiet>>

RingNext ==
    \/ \E lo \in RingFrameMins : \E hi \in scen.frames :
          RingCallbackEnter(lo, hi)
    \/ RingCallbackRead
    \/ RingCallbackAdvance
    \/ RingAnalyzeEnter
    \/ RingAnalyzeRun

RingSpec == RingInit /\ [][RingNext]_vars

(***************************************************************************)
(* The GTK main thread (recordClicked, settingsApply, startRecording,      *)
(* stopRecording) and the recording threads it creates, each running       *)
(* recordingWorker -> audioRecord.  detectAnalyze and readCallback are     *)
(* followed in the specifications above; here a call of detectAnalyze is   *)
(* one step and the callback only shows through rc.status.                 *)
(***************************************************************************)
\* the threads that can exist at a time in the model
MaxWorkers == 2

Workers == 1..MaxWorkers

\* the thread has been created and has not returned from recordingWorker
Alive(w) == workers[w].pc \notin {"none", "done"}

AliveSet == {w \in Workers : Alive(w)}

\* a failed assertion has ended the process
Aborted == \E w \in Workers : workers[w].pc = "aborted"

RecInit ==
    /\ SessionStart(Scenario(<<>>, {}))
    /\ cb = CbIdle
    /\ keepRecording = 0
    /\ recordingThread = 0
    /\ guiPc = "idle"
    /\ wasRecording = 0
    /\ recordButton = TRUE
    /\ device = TRUE
    /\ workers = [w \in Workers |-> NoWorker]
    /\ recHist = NoRecHist
    /\ fn = NoFn

\* the variables this specification never changes
recQuiet == <<scen, ctxVars, ringVars, status, pc, availableBytes, histVars,
              cb, fn>>

\* the slot of the thread g_thread_new creates
FreeSlots == {w \in Workers : ~Alive(w)}

\* startRecording: the new values of keepRecording, recordingThread and
\* workers.  The GThread g_thread_new returns is not stored.
StartRecording(w) ==
    IF recordingThread # 0 /\ keepRecording # 0
    THEN UNCHANGED <<keepRecording, recordingThread, workers>>
    ELSE /\ w \in FreeSlots
         /\ \A v \in FreeSlots : w <= v
         /\ keepRecording' = 1
         /\ recordingThread' = recordingThread
         /\ workers' = [workers EXCEPT ![w] = [NoWorker EXCEPT !.pc = "entry"]]

\* recordClicked: stop when recording, start otherwise
RecordClicked ==
    /\ guiPc = "idle"
    /\ recordButton
    /\ ~Aborted
    /\ IF keepRecording # 0
       THEN /\ guiPc' = "clickStop"
            /\ UNCHANGED <<keepRecording, recordingThread, workers>>
       ELSE /\ guiPc' = "idle"
            /\ \E w \in Workers : StartRecording(w)
    /\ UNCHANGED <<wasRecording, recordButton, device, recHist, gFrets,
                   recQuiet>>

\* stopRecording, first statement: ctx->keepRecording = 0
StopRecordingEnter ==
    /\ guiPc \in {"clickStop", "applyStop"}
    /\ ~Aborted
    /\ keepRecording' = 0
    /\ guiPc' = IF guiPc = "clickStop" THEN "clickJoin" ELSE "applyJoin"
    /\ UNCHANGED <<recordingThread, wasRecording, recordButton, device,
                   workers, recHist, gFrets, recQuiet>>

\* g_thread_join returns once the thread has returned
Joinable(thread) == thread # 0 => workers[thread].pc = "done"

\* stopRecording, the rest: join if there is a thread, reset label and frets
StopRecordingJoin ==
    /\ guiPc \in {"clickJoin", "applyJoin"}
    /\ ~Aborted
    /\ Joinable(recordingThread)
    /\ recordingThread' = 0
    /\ gFrets' = NoFrets
    /\ guiPc' = IF guiPc = "clickJoin" THEN "idle" ELSE "applySet"
    /\ UNCHANGED <<keepRecording, wasRecording, recordButton, device,
                   workers, recHist, recQuiet>>

\* settingsApply up to the call of stopRecording
SettingsApply ==
    /\ guiPc = "idle"
    /\ ~Aborted
    /\ wasRecording' = keepRecording
    /\ guiPc' = IF keepRecording # 0 THEN "applyStop" ELSE "applySet"
    /\ UNCHANGED <<keepRecording, recordingThread, recordButton, device,
                   workers, recHist, gFrets, recQuiet>>

\* settingsApply from audioSetBackend on
SettingsSet ==
    /\ guiPc = "applySet"
    /\ ~Aborted
    /\ guiPc' = "idle"
    /\ wasRecording' = 0
    /\ \E applied \in BOOLEAN :
          IF applied
          THEN /\ device' = TRUE
               /\ recordButton' = TRUE
               /\ IF wasRecording # 0
                  THEN \E w \in Workers : StartRecording(w)
                  ELSE UNCHANGED <<keepRecording, recordingThread, workers>>
          ELSE /\ device' \in {device, FALSE}
               /\ recordButton' = FALSE
               /\ UNCHANGED <<keepRecording, recordingThread, workers>>
    /\ UNCHANGED <<recHist, gFrets, recQuiet>>

\* how the set-up of audioRecord can end: the statement that failed
SetupFailures == {"none", "open", "ring", "start"}

\* audioRecord from its entry to the assertion: the device test, createStream
\* and the chain of if(!err) set-up statements
SetupOf(failure) ==
    [pc        |-> "assert",
     err       |-> IF failure = "none" THEN 0 ELSE 1,
     status    |-> 0,
     stream    |-> CASE failure = "none" -> "started"
                    [] failure = "open" -> "created"
                    [] OTHER            -> "opened",
     ring      |-> CASE failure = "open" -> "uninit"
                    [] failure = "ring" -> "null"
                    [] OTHER            -> "live",
     detection |-> IF failure \in {"open", "ring"} THEN "null" ELSE "live",
     drains    |-> 0,
     looped    |-> FALSE]

\* a thread returns from recordingWorker
Returned(w) == workers' = [workers EXCEPT ![w] = [NoWorker EXCEPT !.pc = "done"]]

WorkerEnter(w) ==
    /\ workers[w].pc = "entry"
    /\ ~Aborted
    /\ \/ /\ ~device
          /\ Returned(w)
          /\ UNCHANGED recHist
       \/ /\ device
          /\ \E created \in BOOLEAN :
                IF created
                THEN /\ \E failure \in SetupFailures :
                          workers' = [workers EXCEPT ![w] = SetupOf(failure)]
                     /\ UNCHANGED recHist
                ELSE Returned(w) /\ UNCHANGED recHist
    /\ UNCHANGED <<keepRecording, recordingThread, guiPc, wasRecording,
                   recordButton, device, gFrets, recQuiet>>

\* assert(*keepRunning)
WorkerAssert(w) ==
    /\ workers[w].pc = "assert"
    /\ ~Aborted
    /\ IF keepRecording # 0
       THEN workers' = [workers EXCEPT ![w].pc = "loop"]
       ELSE workers' = [workers EXCEPT ![w].pc = "aborted"]
    /\ UNCHANGED <<keepRecording, recordingThread, guiPc, wasRecording,
                   recordButton, device, recHist, gFrets, recQuiet>>

\* the condition of the acquisition loop
KeepLooping(wk) == keepRecording # 0 /\ wk.status = 0 /\ wk.err = 0

WorkerLoopTest(w) ==
    /\ workers[w].pc = "loop"
    /\ ~Aborted
    /\ workers' = [workers EXCEPT ![w].pc =
                      IF KeepLooping(workers[w]) THEN "analyze" ELSE "pause"]
    /\ UNCHANGED <<keepRecording, recordingThread, guiPc, wasRecording,
                   recordButton, device, recHist, gFrets, recQuiet>>

\* gFrets after a call of detectAnalyze: left alone, reset by
\* guiResetHighlights, or set by guiHighlightFrets to the frets of a note
DetectWrites(frets) ==
    {frets, NoFrets,
     noteToFretsArray(48, STANDARD_TUNING, GUITAR_STRINGS, GUITAR_FRETS)}

\* detectAnalyze is handed a released or missing ring or context
Misused(wk) == wk.ring # "live" \/ wk.detection # "live"

\* the body of the loop: flush events, sleep, detectAnalyze
WorkerAnalyze(w) ==
    /\ workers[w].pc = "analyze"
    /\ ~Aborted
    /\ workers' = [workers EXCEPT ![w].pc = "loop", ![w].err = 0,
                                  ![w].looped = TRUE]
    /\ recHist' = [recHist EXCEPT !.misuse = @ \/ Misused(workers[w])]
    /\ gFrets' \in DetectWrites(gFrets)
    /\ UNCHANGED <<keepRecording, recordingThread, guiPc, wasRecording,
                   recordButton, device, recQuiet>>

\* readCallback reports an overflow or a read error in rc.status
WorkerCallbackError(w) ==
    /\ workers[w].pc \in {"assert", "loop", "analyze"}
    /\ workers[w].stream = "started"
    /\ workers[w].status = 0
    /\ ~Aborted
    /\ \E code \in 1..3 : workers' = [workers EXCEPT ![w].status = code]
    /\ UNCHANGED <<keepRecording, recordingThread, guiPc, wasRecording,
                   recordButton, device, recHist, gFrets, recQuiet>>

\* soundio_instream_pause and soundio_instream_destroy
WorkerPause(w) ==
    /\ workers[w].pc = "pause"
    /\ ~Aborted
    /\ workers' = [workers EXCEPT ![w].pc = "clean",
                                  ![w].stream = "destroyed"]
    /\ UNCHANGED <<keepRecording, recordingThread, guiPc, wasRecording,
                   recordButton, device, recHist, gFrets, recQuiet>>

\* the last detectAnalyze is made when the ring exists and nothing failed
Drains_Never(wk) == FALSE

Drains(wk) == wk.ring = "live" /\ wk.err = 0

\* if(rc.ringBuffer) { if(!err) err = detectAnalyze(...); ...: rc.ringBuffer
\* was never written when the stream could not be opened, so the test can go
\* either way on it
WorkerClean(w) ==
    /\ workers[w].pc = "clean"
    /\ ~Aborted
    /\ \E nonNull \in IF workers[w].ring = "uninit" THEN BOOLEAN
                      ELSE {workers[w].ring = "live"} :
          IF nonNull
          THEN /\ workers' = [workers EXCEPT
                    ![w].pc = "ringDestroy",
                    ![w].drains = IF Drains(workers[w]) THEN @ + 1 ELSE @]
               /\ recHist' = [recHist EXCEPT !.misuse =
                    @ \/ (Drains(workers[w]) /\ Misused(workers[w]))]
               /\ gFrets' \in IF Drains(workers[w]) THEN DetectWrites(gFrets)
                               ELSE {gFrets}
          ELSE /\ workers' = [workers EXCEPT ![w].pc = "free"]
               /\ UNCHANGED <<recHist, gFrets>>
    /\ UNCHANGED <<keepRecording, recordingThread, guiPc, wasRecording,
                   recordButton, device, recQuiet>>

\* soundio_ring_buffer_destroy(rc.ringBuffer)
WorkerRingDestroy(w) ==
    /\ workers[w].pc = "ringDestroy"
    /\ ~Aborted
    /\ workers' = [workers EXCEPT ![w].pc = "free",
                                  ![w].ring = "destroyed"]
    /\ recHist' = [recHist EXCEPT !.misuse = @ \/ workers[w].ring # "live"]
    /\ UNCHANGED <<keepRecording, recordingThread, guiPc, wasRecording,
                   recordButton, device, gFrets, recQuiet>>

\* the value audioRecord is about to return: err == 0
ReturnValue(wk) == IF wk.err = 0 THEN 1 ELSE 0

\* detectFree(detection); return err == 0
WorkerFree(w) ==
    /\ workers[w].pc = "free"
    /\ ~Aborted
    /\ Returned(w)
    /\ UNCHANGED <<keepRecording, recordingThread, guiPc, wasRecording,
                   recordButton, device, recHist, gFrets, recQuiet>>

\* one step of a recording thread
WorkerStep(w) ==
    \/ WorkerEnter(w)
    \/ WorkerAssert(w)
    \/ WorkerLoopTest(w)
    \/ WorkerAnalyze(w)
    \/ WorkerPause(w)
    \/ WorkerClean(w)
    \/ WorkerRingDestroy(w)
    \/ WorkerFree(w)

RecNext ==
    \/ RecordClicked
    \/ StopRecordingEnter
    \/ StopRecordingJoin
    \/ SettingsApply
    \/ SettingsSet
    \/ \E w \in Workers : WorkerStep(w)
    \/ \E w \in Workers : WorkerCallbackError(w)

RecSpec == RecInit /\ [][RecNext]_vars

\* every thread the system has created keeps being scheduled
RecFairSpec == RecSpec /\ \A w \in Workers : WF_vars(WorkerStep(w))

(***************************************************************************)
(* Single calls: detectAnalyze up to its call of estimatePeriod on a       *)
(* session detectInit has set up for some sample rate, and estimatePeriod  *)
(* on one block followed by the gate of detectAnalyze.                     *)
(***************************************************************************)
\* sample rates detectInit is called with: unsigned, not 0
FnRates == {1000, 4000, 5280, 8000}

\* bytes in the ring when detectAnalyze is called
FnAvailable(maxP) ==
    {0, (2 * maxP - 1) * SizeofFloat, 2 * maxP * SizeofFloat}

\* samples in a block handed to estimatePeriod
FnBlockLen == 8

\* sample values of the blocks: -1.0, 0.0, 1.0
FnSamples == {0 - SampleScale, 0, SampleScale}

\* the period ranges estimatePeriod accepts for a block of n samples
FnRanges(n) ==
    {r \in (2..3) \X (3..(n \div 2)) : r[2] > r[1]}

\* whether malloc/realloc gives a buffer: alloc returns gNac
FnAllocs == BOOLEAN

\* note names: a letter, then nothing, "#" or "b", and some that are not
FnLetters == {"A", "B", "C", "D", "E", "F", "G",
              "a", "b", "c", "d", "e", "f", "g"}

FnNames ==
    {<<l>> : l \in FnLetters} \cup (FnLetters \X {"#", "b"})
    \cup {<<>>, <<"#">>, <<"A", "#", "b">>, <<"B", "B">>}

FnOctaves == 0..10

\* notes, tunings and fret counts noteToFrets is called with
FnNotes == 15..70

FnTunings == {STANDARD_TUNING, <<43>>, <<38, 38, 45>>}

FnFrets == {0, 12, GUITAR_FRETS}

\* the signal y of testPeriodEstimatorSine, y[i] = sin(2 pi i/p)
\* + 0.6 sin(4 pi i/p) + 0.3 sin(6 pi i/p), at half amplitude and rounded to
\* the sample grid: round(8 y[i]) sixteenths.  One cycle for each whole p
HarmonicCycle ==
    (9 :> <<
          0, 12, 7, 3, 2, 0 - 2, 0 - 3, 0 - 7, 0 - 12>>)
    @@ (12 :> <<
          0, 11, 11, 6, 3, 2, 0, 0 - 2, 0 - 3, 0 - 6, 0 - 11, 0 - 11>>)
    @@ (30 :> <<
          0, 5, 9, 12, 12, 11, 9, 7, 5, 3, 3, 3, 2, 2, 1, 0, 0 - 1, 0 - 2,
          0 - 2, 0 - 3, 0 - 3, 0 - 3, 0 - 5, 0 - 7, 0 - 9, 0 - 11, 0 - 12,
          0 - 12, 0 - 9, 0 - 5>>)
    @@ (48 :> <<
          0, 3, 6, 9, 11, 12, 12, 12, 11, 10, 8, 7, 6, 4, 4, 3, 3, 3, 3, 2,
          2, 2, 1, 1, 0, 0 - 1, 0 - 1, 0 - 2, 0 - 2, 0 - 2, 0 - 3, 0 - 3,
          0 - 3, 0 - 3, 0 - 4, 0 - 4, 0 - 6, 0 - 7, 0 - 8, 0 - 10, 0 - 11,
          0 - 12, 0 - 12, 0 - 12, 0 - 11, 0 - 9, 0 - 6, 0 - 3>>)

\* the same signal for the p of the test, fs/f = 100.227, 258 samples
HarmonicTestP == (44100 * PeriodScale) \div 440

HarmonicTestBlock ==
    <<0, 2, 3, 5, 6, 7, 8, 9, 10, 11, 12, 12, 12, 12, 12, 12, 11, 11, 10,
      10, 9, 8, 8, 7, 6, 6, 5, 5, 4, 4, 3, 3, 3, 3, 3, 3, 3, 3, 3, 2, 2, 2,
      2, 2, 2, 2, 1, 1, 1, 0, 0, 0, 0 - 1, 0 - 1, 0 - 1, 0 - 2, 0 - 2,
      0 - 2, 0 - 2, 0 - 2, 0 - 2, 0 - 2, 0 - 3, 0 - 3, 0 - 3, 0 - 3, 0 - 3,
      0 - 3, 0 - 3, 0 - 3, 0 - 3, 0 - 4, 0 - 4, 0 - 4, 0 - 5, 0 - 5, 0 - 6,
      0 - 7, 0 - 7, 0 - 8, 0 - 9, 0 - 10, 0 - 10, 0 - 11, 0 - 11, 0 - 12,
      0 - 12, 0 - 12, 0 - 12, 0 - 12, 0 - 12, 0 - 11, 0 - 10, 0 - 10,
      0 - 9, 0 - 7, 0 - 6, 0 - 5, 0 - 3, 0 - 2, 0, 1, 3, 4, 6, 7, 8, 9, 10,
      11, 11, 12, 12, 12, 12, 12, 12, 11, 11, 10, 9, 9, 8, 7, 6, 6, 5, 5,
      4, 4, 3, 3, 3, 3, 3, 3, 3, 3, 3, 3, 2, 2, 2, 2, 2, 2, 1, 1, 1, 0, 0,
      0, 0 - 1, 0 - 1, 0 - 1, 0 - 2, 0 - 2, 0 - 2, 0 - 2, 0 - 2, 0 - 2,
      0 - 2, 0 - 3, 0 - 3, 0 - 3, 0 - 3, 0 - 3, 0 - 3, 0 - 3, 0 - 3, 0 - 3,
      0 - 4, 0 - 4, 0 - 4, 0 - 5, 0 - 5, 0 - 6, 0 - 7, 0 - 7, 0 - 8, 0 - 9,
      0 - 9, 0 - 10, 0 - 11, 0 - 11, 0 - 12, 0 - 12, 0 - 12, 0 - 12,
      0 - 12, 0 - 12, 0 - 11, 0 - 11, 0 - 10, 0 - 9, 0 - 8, 0 - 7, 0 - 5,
      0 - 4, 0 - 2, 0 - 1, 1, 2, 4, 5, 7, 8, 9, 10, 11, 11, 12, 12, 12, 12,
      12, 12, 11, 11, 10, 9, 9, 8, 7, 7, 6, 5, 5, 4, 4, 4, 3, 3, 3, 3, 3,
      3, 3, 3, 3, 2, 2, 2, 2, 2, 2, 1, 1, 1, 1, 0, 0, 0, 0 - 1, 0 - 1,
      0 - 1, 0 - 2, 0 - 2>>

\* y[0..n-1] for a whole p
HarmonicBlock(p, n) ==
    [i \in 1..n |-> HarmonicCycle[p][((i - 1) % p) + 1]] \o <<>>

\* the period ranges of the calls: a short one and the session's
HarmonicRanges == {<<2, 12>>, <<DetectMinPeriod(5280), DetectMaxPeriod(5280)>>}

\* the calls of the test: the signal of length 2 * maxP, minP and maxP
FnHarmonics ==
    {[p |-> c[1] * PeriodScale, x |-> HarmonicBlock(c[1], 2 * c[2][2]),
      n |-> 2 * c[2][2], minP |-> c[2][1], maxP |-> c[2][2]] :
        c \in {d \in (DOMAIN HarmonicCycle) \X HarmonicRanges :
                  d[1] <= d[2][2]}}
    \cup {[p |-> HarmonicTestP, x |-> HarmonicTestBlock,
           n |-> Len(HarmonicTestBlock), minP |-> DetectMinPeriod(5280),
           maxP |-> Len(HarmonicTestBlock) \div 2]}


\* calls of estimatePeriod on signals whose period is above maxP: two
\* periods of a decaying oscillation, and of a wave with harmonics clipped
\* to the sample range
OctaveBlocks ==
    {[minP |-> 2, maxP |-> 20, n |-> 40,
      x |-> <<0, 8, 12, 10, 6, 0, 0 - 4, 0 - 6, 0 - 6, 0 - 3, 0, 2, 3, 3, 2,
              0, 0 - 1, 0 - 2, 0 - 2, 0 - 1, 0, 1, 2, 10, 12, 9, 4, 0 - 1,
              0 - 5, 0 - 6, 0 - 5, 0 - 2, 1, 3, 3, 3, 1, 0, 0 - 1, 0 - 2>>],
     [minP |-> 8, maxP |-> 24, n |-> 48,
      x |-> <<0, 10, 16, 16, 16, 16, 16, 13, 9, 7, 5, 5, 5, 4, 2, 0, 0 - 3,
              0 - 4, 0 - 5, 0 - 5, 0 - 6, 0 - 7, 0 - 10, 0 - 14, 0 - 16,
              0 - 16, 0 - 16, 0 - 16, 0 - 16, 0 - 8, 3, 12, 16, 16, 16, 16,
              16, 12, 8, 6, 5, 5, 5, 3, 1, 0 - 1, 0 - 3, 0 - 4>>]}

\* what an element of the heap that computeNac did not write can hold
UnwrittenNac == {0 - NacScale, 0, NacScale, NaN}

\* the sample rates asked of the sound card, in order of preference; the
\* array ends with 0
SAMPLE_RATES == <<44100, 48000, 96000, 24000, 0>>

\* inStream->sample_rate as createStream leaves it for a device supporting
\* the rates in supported, 0 when createStream returns without a stream.
\* The loop stores *i while *i is not 0 and not supported, so the rate kept
\* is the last one found unsupported, or SAMPLE_RATES[0] when the loop body
\* never ran; soundio_device_nearest_sample_rate is asked when that is 0
createStreamRate(supported) ==
    LET stop   == CHOOSE k \in 1..Len(SAMPLE_RATES) :
                     /\ SAMPLE_RATES[k] = 0 \/ SAMPLE_RATES[k] \in supported
                     /\ \A j \in 1..(k - 1) :
                           SAMPLE_RATES[j] # 0 /\ SAMPLE_RATES[j] \notin supported
        stored == IF stop = 1 THEN SAMPLE_RATES[1] ELSE SAMPLE_RATES[stop - 1]
        near   == CHOOSE r \in supported :
                     \A o \in supported :
                        Abs(r - SAMPLE_RATES[1]) <= Abs(o - SAMPLE_RATES[1])
    IN  IF supported = {} THEN 0
        ELSE IF stored = 0 THEN near
        ELSE stored

FnInit ==
    /\ ThreadsIdle
    /\ \/ /\ SessionStartAt(Scenario(<<>>, {}), FnRates)
          /\ \E bytes \in FnAvailable(DetectMaxPeriod(rate)) :
                fn = [op  |-> "none",
                      arg |-> [kind |-> "session", bytes |-> bytes],
                      res |-> <<>>]
       \/ /\ SessionStart(Scenario(<<>>, {}))
          /\ \E x \in [1..FnBlockLen -> FnSamples],
                r \in FnRanges(FnBlockLen), allocOk \in FnAllocs :
                fn = [op  |-> "none",
                      arg |-> [kind |-> "estimate", x |-> x, n |-> FnBlockLen,
                               minP |-> r[1], maxP |-> r[2],
                               allocOk |-> allocOk],
                      res |-> <<>>]
       \/ /\ SessionStart(Scenario(<<>>, {}))
          /\ \E name \in FnNames, octave \in FnOctaves :
                fn = [op  |-> "none",
                      arg |-> [kind |-> "semitones", name |-> name,
                               octave |-> octave],
                      res |-> <<>>]
       \/ /\ SessionStart(Scenario(<<>>, {}))
          /\ \E note \in FnNotes, tuning \in FnTunings,
                fretsNumber \in FnFrets :
                fn = [op  |-> "none",
                      arg |-> [kind |-> "frets", note |-> note,
                               tuning |-> tuning, strings |-> Len(tuning),
                               fretsNumber |-> fretsNumber],
                      res |-> <<>>]
       \/ /\ SessionStart(Scenario(<<>>, {}))
          /\ \E h \in FnHarmonics :
                fn = [op  |-> "none",
                      arg |-> [kind |-> "harmonic", p |-> h.p, x |-> h.x,
                               n |-> h.n, minP |-> h.minP, maxP |-> h.maxP],
                      res |-> <<>>]
       \/ /\ SessionStart(Scenario(<<>>, {}))
          /\ \E supported \in SUBSET {22050, 24000, 44100, 48000, 96000} :
                fn = [op  |-> "none",
                      arg |-> [kind |-> "stream", supported |-> supported],
                      res |-> <<>>]
       \/ /\ SessionStart(Scenario(<<>>, {}))
          /\ \E b \in OctaveBlocks \cup FnHarmonics :
                fn = [op  |-> "none",
                      arg |-> [kind |-> "octaves", x |-> b.x, n |-> b.n,
                               minP |-> b.minP, maxP |-> b.maxP],
                      res |-> <<>>]

\* the variables these calls never change
fnQuiet == <<scen, rate, minPeriod, maxPeriod, lastDetected, peaks, lastPeak,
             ringVars, status, gFrets, pc, histVars, cb, guiVars>>

\* the assertions of detectAnalyze and of estimatePeriod, and the early
\* return between them, in the order they are evaluated: the first that
\* stops the call, or "estimate" when estimatePeriod goes on to the estimate
CallOutcome(minP, maxP, available) ==
    CASE ~(minP > 0)               -> "assert minPeriod > 0"
      [] ~(maxP > minP)            -> "assert maxPeriod > minPeriod"
      [] NotEnough(available, maxP) -> "return"
      [] ~(minP > 1)               -> "assert minP > 1"
      [] ~(available >= 2 * maxP)  -> "assert n >= 2*maxP"
      [] OTHER                     -> "estimate"

FnDetectAnalyzeEnter ==
    /\ fn.op = "none"
    /\ fn.arg.kind = "session"
    /\ availableBytes' = fn.arg.bytes
    /\ fn' = [fn EXCEPT
                !.op = "called",
                !.res = CallOutcome(minPeriod, maxPeriod,
                                    fn.arg.bytes \div SizeofFloat)]
    /\ UNCHANGED <<droppedSamples, fnQuiet>>

\* the factor fixOctaves divides the period by
OctaveMul(nac, minP, period, maxNac) ==
    SetMax({m \in 1..(maxNac \div minP) :
               SubsAllStrong(nac, period, maxNac, m)})

\* estimatePeriod with the outcome of alloc: [period, q, periodInt, set,
\* failed], where failed marks the two returns of 0 that report an error
estimatePeriodAlloc(x, n, minP, maxP, allocOk) ==
    IF ~allocOk
    THEN [period |-> 0, q |-> 0 - NacScale, periodInt |-> 0, set |-> FALSE,
          failed |-> TRUE]
    ELSE LET est == estimatePeriod(x, n, minP, maxP)
         IN  [period |-> est.period, q |-> est.q,
              periodInt |-> est.periodInt, set |-> est.set,
              failed |-> ~est.set]

FnEstimatePeriod ==
    /\ fn.op = "none"
    /\ fn.arg.kind = "estimate"
    /\ fn' = [fn EXCEPT
                !.op = "estimated",
                !.res = estimatePeriodAlloc(fn.arg.x, fn.arg.n, fn.arg.minP,
                                            fn.arg.maxP, fn.arg.allocOk)]
    /\ UNCHANGED <<droppedSamples, availableBytes, fnQuiet>>

\* the first filter of detectAnalyze on the values estimatePeriod left
FnGate ==
    /\ fn.op = "estimated"
    /\ \E intPeriod \in IF fn.res.set THEN {fn.res.periodInt} ELSE UninitInt :
          IF PassesGate(fn.res.period, intPeriod, fn.res.q)
          THEN /\ fn' = [fn EXCEPT !.op = "passed"]
               /\ UNCHANGED droppedSamples
          ELSE /\ fn' = [fn EXCEPT !.op = "gated"]
               /\ droppedSamples' = droppedSamples + fn.arg.n
    /\ UNCHANGED <<availableBytes, fnQuiet>>

\* a call of noteToSemitones: the value returned and the table index read
FnNoteToSemitones ==
    /\ fn.op = "none"
    /\ fn.arg.kind = "semitones"
    /\ \E stray \in StrayShorts :
          fn' = [fn EXCEPT
                   !.op = "semitones",
                   !.res = [semitones |-> noteToSemitonesAt(fn.arg.name,
                                             fn.arg.octave, stray),
                            index     |-> TableIndex(fn.arg.name)]]
    /\ UNCHANGED <<droppedSamples, availableBytes, fnQuiet>>

\* a call of noteToFrets: the array it fills and the count it returns
FnNoteToFrets ==
    /\ fn.op = "none"
    /\ fn.arg.kind = "frets"
    /\ fn' = [fn EXCEPT
                !.op = "frets",
                !.res = [frets |-> noteToFretsArray(fn.arg.note,
                                      fn.arg.tuning, fn.arg.strings,
                                      fn.arg.fretsNumber),
                         valid |-> noteToFrets(fn.arg.note, fn.arg.tuning,
                                      fn.arg.strings, fn.arg.fretsNumber)]]
    /\ UNCHANGED <<droppedSamples, availableBytes, fnQuiet>>

\* the call of testPeriodEstimatorSine on the signal with harmonics
FnSineTest ==
    /\ fn.op = "none"
    /\ fn.arg.kind = "harmonic"
    /\ fn' = [fn EXCEPT
                !.op = "harmonic",
                !.res = estimatePeriod(fn.arg.x, fn.arg.n, fn.arg.minP,
                                       fn.arg.maxP)]
    /\ UNCHANGED <<droppedSamples, availableBytes, fnQuiet>>

\* a call of createStream: the sample rate it asks the stream to have
FnCreateStream ==
    /\ fn.op = "none"
    /\ fn.arg.kind = "stream"
    /\ fn' = [fn EXCEPT !.op = "stream",
                        !.res = createStreamRate(fn.arg.supported)]
    /\ UNCHANGED <<droppedSamples, availableBytes, fnQuiet>>

\* a call of estimatePeriod with the indices fixOctaves reads: the elements
\* outside [minP - 1, maxP + 1] hold whatever the heap holds
FnFixOctaves ==
    /\ fn.op = "none"
    /\ fn.arg.kind = "octaves"
    /\ \E junk \in UnwrittenNac,
          nac \in {computeNac(fn.arg.x, fn.arg.n, fn.arg.minP, fn.arg.maxP)} :
          \E peak \in {findPeak(nac, fn.arg.minP, fn.arg.maxP)},
             heap \in {[i \in 1..(2 * fn.arg.maxP) |->
                          IF i \in (fn.arg.minP - 1)..(fn.arg.maxP + 1)
                          THEN nac[i] ELSE junk] \o <<>>} :
             fn' = [fn EXCEPT
                      !.op = "octaves",
                      !.res = IF peak.best = 0 - 1
                              THEN [best |-> peak.best, period |-> 0,
                                    reads |-> {}]
                              ELSE [best   |-> peak.best,
                                    period |-> fixOctaves(heap, fn.arg.minP,
                                                   peak.period, peak.best),
                                    reads  |-> FixOctavesReads(heap,
                                                   fn.arg.minP, peak.period,
                                                   peak.best)]]
    /\ UNCHANGED <<droppedSamples, availableBytes, fnQuiet>>

FnNext ==
    \/ FnDetectAnalyzeEnter
    \/ FnEstimatePeriod
    \/ FnGate
    \/ FnNoteToSemitones
    \/ FnNoteToFrets
    \/ FnSineTest
    \/ FnCreateStream
    \/ FnFixOctaves

FnSpec == FnInit /\ [][FnNext]_vars

(***************************************************************************)
(* Vocabulary of the properties                                            *)
(***************************************************************************)
\* a step that completes a detectAnalyze call which had enough samples
RunStep == pc = "estimate" /\ pc' = "idle"

\* the events the step added
Emitted == SubSeq(events', Len(events) + 1, Len(events'))

EmitsNoteOn == \E i \in 1..Len(Emitted) : Emitted[i].type = "NoteOn"

LastEvent == events[Len(events)]

\* number of NoteOff events after the last NoteOn
TrailingOffs ==
    Len(events) - SetMax({0} \cup {i \in 1..Len(events) :
                                      events[i].type = "NoteOn"})

\* the note has a position on some string of the standard tuning
Playable(note) ==
    \E i \in 1..GUITAR_STRINGS :
        note - STANDARD_TUNING[i] >= 0 /\ note - STANDARD_TUNING[i] <= 22

\* the block of the call that just ended passed the quality gate / both
\* gates
CallPassedQuality == last'.period > 0 /\ last'.q # NaN
                     /\ 100 * last'.q >= 85 * NacScale
CallPassedGates == CallPassedQuality /\ Playable(last'.note)

(***************************************************************************)
(* C1: in a block that passed the quality and playability gates and had a  *)
(* peak above NOISE_THRESHOLD, NoteOn(note, frets) is emitted and          *)
(* lastDetected set to note iff quick_raise, or lastDetected (as the       *)
(* stale timeout of the same call left it) is INVALID, or                  *)
(* |note - lastDetected| mod 12 is not in {0, 7}; otherwise no event is    *)
(* emitted and lastDetected is unchanged.                                  *)
(***************************************************************************)
C1_NoteOnIff ==
    [][ (RunStep /\ CallPassedGates /\ last'.minS) =>
        LET ld    == IF droppedSamples > rate THEN INVALID_SEMITONE
                                              ELSE lastDetected
            note  == last'.note
            delta == Abs(note - ld) % 12
            cond  == last'.quick \/ ld = INVALID_SEMITONE
                     \/ delta \notin {0, 7}
            on    == NoteOn(note, [i \in 1..GUITAR_STRINGS |->
                          IF note - STANDARD_TUNING[i] \in 0..22
                          THEN note - STANDARD_TUNING[i] ELSE 0 - 1])
        IN  IF cond
            THEN /\ Emitted # <<>>
                 /\ Emitted[Len(Emitted)] = on
                 /\ \A i \in 1..(Len(Emitted) - 1) : Emitted[i] = NoteOff
                 /\ lastDetected' = note
            ELSE /\ Emitted = <<>>
                 /\ lastDetected' = lastDetected ]_vars

\* a block a fifth above the sounding note was absorbed as a hold
C1_Witness ==
    /\ last.kind = "hold"
    /\ last.note = lastDetected + 7
    /\ ~last.quick

(***************************************************************************)
(* C2: a detectAnalyze call that finds fewer than 2*maxPeriod samples      *)
(* returns without advancing the read pointer, emits nothing and leaves    *)
(* lastDetected, peaks, lastPeak and droppedSamples unchanged, so the same *)
(* samples are there for the next call.                                    *)
(***************************************************************************)
C2_ShortCallNoEffect ==
    [][ ( /\ pc = "idle"
          /\ (writeOffset - readOffset) \div SizeofFloat < 2 * maxPeriod
          /\ writeOffset' = writeOffset /\ status' = status ) =>
        ( /\ pc' = "idle"
          /\ UNCHANGED <<readOffset, ringData, lastDetected, peaks,
                         lastPeak, droppedSamples, events, gFrets>> ) ]_vars

\* a call returned early with samples pending, after a note was detected
C2_Witness ==
    /\ last.kind = "short"
    /\ last.n > 0
    /\ Len(ringData) = last.n
    /\ lastDetected # INVALID_SEMITONE

(***************************************************************************)
(* C3 as stated: an all-zero block never produces a NoteOn, and while      *)
(* every block since a NoteOn is all-zero at most one NoteOff is emitted:  *)
(* exactly one after a second of silence and no further event.             *)
(***************************************************************************)
C3_Original ==
    /\ (last.zero => last.kind # "noteon")
    /\ (zeroSinceOn => TrailingOffs <= 1)

(***************************************************************************)
(* C3 amended: an all-zero block never produces a NoteOn; a call on an     *)
(* all-zero block emits a NoteOff exactly when it starts with              *)
(* droppedSamples > rate, and nothing otherwise, so that silence after a   *)
(* NoteOn yields one NoteOff for every more-than-a-second of gated         *)
(* samples, again and again.                                               *)
(***************************************************************************)
C3_SilenceNoteOffs ==
    [][ (RunStep /\ last'.zero) =>
        Emitted = IF droppedSamples > rate THEN <<NoteOff>> ELSE <<>> ]_vars

\* a second NoteOff was emitted in one uninterrupted silence after a NoteOn
C3_Witness ==
    /\ zeroSinceOn
    /\ last.zero
    /\ TrailingOffs = 2

(***************************************************************************)
(* C4: when the last event is NoteOn(n), a block that resolves to n with   *)
(* no quick raise in a call without stale timeout emits nothing, and a     *)
(* call that adds NoteOn(n) right after NoteOn(n), without a NoteOff or    *)
(* another NoteOn between them, had a quick raise.                         *)
(***************************************************************************)
C4_SameNoteSuppressed ==
    [][ (RunStep /\ events # <<>> /\ LastEvent.type = "NoteOn") =>
        /\ ( /\ CallPassedGates /\ last'.minS
             /\ last'.note = LastEvent.note
             /\ ~last'.quick
             /\ ~(droppedSamples > rate) ) => Emitted = <<>>
        /\ ( /\ Emitted # <<>>
             /\ Emitted[1].type = "NoteOn"
             /\ Emitted[1].note = LastEvent.note ) => last'.quick ]_vars

\* a block of the sounding note, above the noise threshold, was absorbed
C4_Witness ==
    /\ last.kind = "hold"
    /\ last.note = lastDetected
    /\ last.minS
    /\ events # <<>>
    /\ LastEvent.type = "NoteOn" /\ LastEvent.note = last.note

\* the session whose signal is one note, a dip and the same note again
DipAndRise == <<Seg(12, 9, 387), Seg(12, 3, 774), Seg(12, 9, 1161)>>

(***************************************************************************)
(* C5: when the last event is NoteOn(n) and an analyzed block resolves to  *)
(* n with a rise of at least RAISE_THRESHOLD between two successive        *)
(* per-period peaks, the call emits NoteOn(n) again; and the session with  *)
(* a note, a dip and the same note again ends with exactly two NoteOn of   *)
(* one note, whatever the blocks the stream was cut into.                  *)
(***************************************************************************)
C5_ReAttack ==
    /\ [](( /\ scen.sig = DipAndRise
            /\ analyzed >= DipAndRise[2].upto + 2 * maxPeriod ) =>
          ( /\ Len(events) = 2
            /\ \A i \in 1..2 : /\ events[i].type = "NoteOn"
                                /\ events[i].note = events[1].note ))
    /\ [][ ( /\ RunStep /\ CallPassedGates
             /\ events # <<>> /\ LastEvent.type = "NoteOn"
             /\ last'.note = LastEvent.note
             /\ 100 * last'.rise >= 12 * SampleScale ) =>
           ( /\ Emitted # <<>>
             /\ Emitted[Len(Emitted)].type = "NoteOn"
             /\ Emitted[Len(Emitted)].note = LastEvent.note ) ]_vars

\* the same note was announced twice in a row, the second time for a rise
\* after a dip that stayed above the noise threshold
C5_Witness ==
    /\ last.kind = "noteon"
    /\ last.prev = last.note
    /\ ~last.stale
    /\ last.quick
    /\ Len(events) >= 2
    /\ events[Len(events) - 1].type = "NoteOn"
    /\ events[Len(events) - 1].note = LastEvent.note

(***************************************************************************)
(* C6: a block whose estimator quality is below MIN_QUALITY emits no       *)
(* NoteOn and does not set lastDetected to a note.                         *)
(***************************************************************************)
C6_LowQualityNoNoteOn ==
    [][ (RunStep /\ last'.q # NaN /\ 100 * last'.q < 85 * NacScale) =>
        ( /\ ~EmitsNoteOn
          /\ lastDetected' \in {lastDetected, INVALID_SEMITONE} ) ]_vars

\* a block that is not silent was dropped for its quality while a note was
\* sounding
C6_Witness ==
    /\ last.kind = "gated"
    /\ ~last.zero
    /\ last.q > 0 /\ 100 * last.q < 85 * NacScale
    /\ last.prev # INVALID_SEMITONE

(***************************************************************************)
(* C7: a call with enough samples that starts with droppedSamples > rate   *)
(* emits a NoteOff first; a NoteOn of the same call comes after it;        *)
(* lastDetected ends as INVALID or that NoteOn's note and droppedSamples   *)
(* counts from 0, that is, it is 0 or the size of this block.              *)
(***************************************************************************)
C7_StaleTimeoutFirst ==
    [][ (RunStep /\ droppedSamples > rate) =>
        ( /\ Emitted # <<>>
          /\ Emitted[1] = NoteOff
          /\ Len(Emitted) <= 2
          /\ lastDetected' = IF Len(Emitted) = 2 /\ Emitted[2].type = "NoteOn"
                             THEN Emitted[2].note ELSE INVALID_SEMITONE
          /\ droppedSamples' \in {0, last'.n} ) ]_vars

\* the timeout and a NoteOn happened in the same call
C7_Witness ==
    /\ last.stale
    /\ last.kind = "noteon"
    /\ Len(events) >= 2
    /\ events[Len(events) - 1] = NoteOff
    /\ LastEvent.type = "NoteOn"

(***************************************************************************)
(* C8: lastDetected is INVALID exactly when no event was emitted yet or    *)
(* the last one is NoteOff, and is n exactly when the last one is          *)
(* NoteOn(n); it becomes INVALID only in a call that starts stale or       *)
(* whose block passes the gates with no peak above the noise threshold.    *)
(***************************************************************************)
C8_StateMatchesLastEvent ==
    /\ [](/\ (lastDetected = INVALID_SEMITONE) <=>
                (events = <<>> \/ LastEvent.type = "NoteOff")
          /\ (lastDetected # INVALID_SEMITONE) =>
                (LastEvent.type = "NoteOn" /\ LastEvent.note = lastDetected))
    /\ [][ (lastDetected # INVALID_SEMITONE
            /\ lastDetected' = INVALID_SEMITONE) =>
           ( /\ RunStep
             /\ \/ droppedSamples > rate
                \/ (CallPassedGates /\ ~last'.minS) ) ]_vars

\* a sounding note ended with a block below the noise threshold
C8_Witness ==
    /\ last.kind = "silence"
    /\ last.prev # INVALID_SEMITONE
    /\ lastDetected = INVALID_SEMITONE
    /\ LastEvent = NoteOff

(***************************************************************************)
(* C9: droppedSamples starts at 0, changes only at the end of a call with  *)
(* enough samples, where a gated block (period/quality gate failed or note *)
(* unplayable) adds its size to the count, taken from 0 if the call        *)
(* started stale, and any other block resets it to 0.                      *)
(***************************************************************************)
C9_DroppedSamplesCount ==
    [][ IF RunStep
        THEN droppedSamples' =
                IF CallPassedGates THEN 0
                ELSE (IF droppedSamples > rate THEN 0 ELSE droppedSamples)
                     + last'.n
        ELSE droppedSamples' = droppedSamples ]_vars

\* the count holds more than the last block, which was unplayable
C9_Witness ==
    /\ last.kind = "unplayable"
    /\ droppedSamples > last.n

C11_Original ==
    /\ FillCount >= 0 /\ FillCount <= Capacity
    /\ pc = "estimate" => readOffset + availableBytes <= writeOffset
    /\ cb.copied * SizeofFloat <= cb.freeBytes

\* one step of a recording thread, from its locals before to its locals after
FinalDrainStep(a, b) ==
    /\ (a.pc = "clean" /\ a.err = 0) =>
          /\ b.drains = 1 /\ a.drains = 0
          /\ a.stream = "destroyed"
          /\ a.ring = "live" /\ b.ring = "live"
          /\ a.detection = "live" /\ b.detection = "live"
          /\ b.pc = "ringDestroy"
    /\ b.drains > a.drains => (a.pc = "clean" /\ a.err = 0)
    /\ a.pc = "analyze" => (~Misused(a) /\ a.stream = "started")
    /\ (a.pc = "ringDestroy" /\ a.err = 0) =>
          (a.ring = "live" /\ b.ring = "destroyed" /\ a.drains = 1)
    /\ (a.pc = "free" /\ a.err = 0) =>
          (a.ring = "destroyed" /\ a.detection = "live" /\ a.drains = 1)

(* C12: when the loop of audioRecord ends with err = 0, detectAnalyze is   *)
(* called exactly once more, with the stream already destroyed and the     *)
(* ring and the DetectContext still live; the ring is destroyed and the    *)
(* context freed only after that call, and no call of detectAnalyze gets a *)
(* released ring or context.                                               *)
C12_FinalDrain ==
    [][\A w \in Workers :
          workers'[w] # workers[w] => FinalDrainStep(workers[w], workers'[w])]_vars

\* a thread that looped, stopped without error and made the final call
C12_Witness ==
    \E w \in DOMAIN workers :
       /\ workers[w].pc = "free"
       /\ workers[w].looped
       /\ workers[w].err = 0
       /\ workers[w].drains = 1
       /\ workers[w].ring = "destroyed"

\* stopRecording has just cleared the flag
FlagCleared == guiPc \in {"clickJoin", "applyJoin"}

(* C13 as stated: every thread that is running when stopRecording clears   *)
(* keepRecording eventually returns from audioRecord (or the process ends  *)
(* on the assertion), provided every thread keeps being scheduled.         *)
C13_Original ==
    \A w \in Workers :
       (FlagCleared /\ Alive(w)) ~> (~Alive(w) \/ Aborted)

(* C14 as stated: stopRecording joins the thread, so at no time do two     *)
(* threads execute audioRecord.                                            *)
C14_Original ==
    \A v, w \in DOMAIN workers : (Alive(v) /\ Alive(w)) => v = w

(* C15 as stated: when settingsApply reaches audioSetBackend and           *)
(* audioSetDevice no thread is executing audioRecord.                      *)
C15_Original ==
    guiPc = "applySet" => \A w \in DOMAIN workers : ~Alive(w)

(* C16 as stated: keepRecording is non-zero every time a thread evaluates  *)
(* the assertion on keepRunning in audioRecord, so it never fails.         *)
C16_Original ==
    \A w \in DOMAIN workers : workers[w].pc # "aborted"

\* the nac buffer and the arg-max of the call the state holds
FnNac == computeNac(fn.arg.x, fn.arg.n, fn.arg.minP, fn.arg.maxP)

FnBest == PeakIndex(FnNac, fn.arg.minP, fn.arg.maxP)

\* estimatePeriod has run on a block, with its buffer allocated
Estimated == fn.op = "estimated" /\ fn.arg.allocOk

(* C17 as stated: on a session of detectInit with a rate > 0 no assertion  *)
(* of detectAnalyze or estimatePeriod fails: the call either returns for   *)
(* lack of samples or reaches the estimate.                                *)
C17_Original ==
    fn.op = "called" => fn.res \in {"return", "estimate"}

\* nac[best] <= nac[best - 1] and nac[best] <= nac[best + 1]
NotInteriorMax(nac, best) ==
    /\ nac[best] # NaN /\ nac[best - 1] # NaN /\ nac[best + 1] # NaN
    /\ nac[best] <= nac[best - 1]
    /\ nac[best] <= nac[best + 1]

(* C18 as stated: when the arg-max of nac is not an interior local maximum *)
(* estimatePeriod returns period 0 and quality 0.                          *)
C18_Original ==
    (Estimated /\ NotInteriorMax(FnNac, FnBest)) =>
       (fn.res.period = 0 /\ fn.res.q = 0)

(* C19 as stated: when estimatePeriod fails it returns period 0, period    *)
(* int -1 and quality 0, and detectAnalyze gates the block.                *)
C19_Original ==
    /\ (fn.op \in {"estimated", "gated", "passed"} /\ fn.res.failed) =>
          /\ fn.res.period = 0
          /\ fn.res.set /\ fn.res.periodInt = 0 - 1
          /\ fn.res.q = 0
    /\ fn.op = "passed" => ~fn.res.failed

\* the shift of findPeak is not applied: the denominator is 0 or the shift
\* is at least 0.2 * best in magnitude
ShiftRejected(nac, best) ==
    LET mid   == nac[best]
        left  == nac[best - 1]
        right == nac[best + 1]
        den   == 2 * mid - left - right
    IN  /\ mid # NaN /\ left # NaN /\ right # NaN
        /\ den = 0 \/ 5 * Abs(right - left) >= 2 * best * Abs(den)

(* C20 as stated: when the shift is rejected the period estimatePeriod     *)
(* returns is best.                                                        *)
C20_Original ==
    (Estimated /\ ShiftRejected(FnNac, FnBest)) =>
       fn.res.period = FnBest * PeriodScale

(* C20, amended: when the shift is rejected findPeak leaves the period at  *)
(* best, and estimatePeriod returns best divided by the factor fixOctaves  *)
(* chooses, which is best itself only when that factor is 1.               *)
C20_RejectedShift ==
    (Estimated /\ ShiftRejected(FnNac, FnBest)) =>
       /\ findPeak(FnNac, fn.arg.minP, fn.arg.maxP).period
             = FnBest * PeriodScale
       /\ fn.res.periodInt = FnBest
       /\ fn.res.period =
             RoundDiv(FnBest * PeriodScale,
                      OctaveMul(FnNac, fn.arg.minP, FnBest * PeriodScale,
                                FnBest))

\* a rejected shift on a block whose octave factor is 2
C20_Witness ==
    /\ fn.op = "estimated"
    /\ fn.arg.allocOk
    /\ ShiftRejected(FnNac, FnBest)
    /\ OctaveMul(FnNac, fn.arg.minP, FnBest * PeriodScale, FnBest) = 2
    /\ 2 * fn.res.period = FnBest * PeriodScale

\* the period findPeak hands to fixOctaves in the call the state holds
FnRaw == findPeak(FnNac, fn.arg.minP, fn.arg.maxP).period

\* every submultiple k/m of the period has a NAC of at least 0.90 nac[best]
StrongAt(nac, period, best, m) ==
    \A k \in 1..(m - 1) :
       LET idx == RoundDiv(k * period, m * PeriodScale)
       IN  nac[idx] # NaN /\ nac[best] # NaN /\ 10 * nac[idx] >= 9 * nac[best]

\* the largest m in [1, floor(best / minP)] whose submultiples are strong
LargestStrong(nac, minP, period, best) ==
    CHOOSE m \in 1..(best \div minP) :
       /\ StrongAt(nac, period, best, m)
       /\ \A g \in (m + 1)..(best \div minP) : ~StrongAt(nac, period, best, g)

FnLags == (fn.arg.minP - 1)..(fn.arg.maxP + 1)

(* C22 as stated: after computeNac every nac[p], p in [minP - 1, maxP + 1], *)
(* is a number in [-1, 1].                                                 *)
C22_Original ==
    Estimated =>
       \A p \in FnLags :
          /\ FnNac[p] # NaN
          /\ 0 - NacScale <= FnNac[p] /\ FnNac[p] <= NacScale

(* C23 as stated: for every lag the energies computeNac maintains          *)
(* incrementally are the sums of x[i]^2 and x[i + p]^2 over i in           *)
(* [0, n - p - 1], its NAC is the NAC of the direct double loop, and the   *)
(* NAC is 0 when one of the two energies is 0.                             *)
C23_Original ==
    Estimated =>
       \A p \in FnLags :
          /\ SumSqBegAt(fn.arg.x, fn.arg.n, fn.arg.minP, p)
                = DirectSumSqBeg(fn.arg.x, fn.arg.n, p)
          /\ SumSqEndAt(fn.arg.x, fn.arg.n, fn.arg.minP, p)
                = DirectSumSqEnd(fn.arg.x, fn.arg.n, p)
          /\ FnNac[p] = DirectNacAt(fn.arg.x, fn.arg.n, p)
          /\ (DirectSumSqBeg(fn.arg.x, fn.arg.n, p) = 0
              \/ DirectSumSqEnd(fn.arg.x, fn.arg.n, p) = 0) => FnNac[p] = 0

\* the semitones of a letter from A, and of an accidental
BaseOfLetter(l) ==
    CASE l \in {"A", "a"} -> 0
      [] l \in {"B", "b"} -> 2
      [] l \in {"C", "c"} -> 0 - 9
      [] l \in {"D", "d"} -> 0 - 7
      [] l \in {"E", "e"} -> 0 - 5
      [] l \in {"F", "f"} -> 0 - 4
      [] l \in {"G", "g"} -> 0 - 2

BaseOfName(name) ==
    BaseOfLetter(name[1])
    + (IF Len(name) = 1 THEN 0 ELSE IF name[2] = "#" THEN 1 ELSE 0 - 1)

\* C, C#, Db, D, D#, Eb, E, F, F#, Gb, G, G#, Ab, A, A#, Bb, B
TestedNames ==
    {<<"C">>, <<"C", "#">>, <<"D", "b">>, <<"D">>, <<"D", "#">>,
     <<"E", "b">>, <<"E">>, <<"F">>, <<"F", "#">>, <<"G", "b">>, <<"G">>,
     <<"G", "#">>, <<"A", "b">>, <<"A">>, <<"A", "#">>, <<"B", "b">>, <<"B">>}

(* C24: for each of the 17 upper-case note names and every octave in       *)
(* [0, 10], noteToSemitones returns 12 * octave + base(name).              *)
C24_SemitonesOfName ==
    (fn.op = "semitones" /\ fn.arg.name \in TestedNames
       /\ fn.arg.octave \in 0..10) =>
          fn.res.semitones = 12 * fn.arg.octave + BaseOfName(fn.arg.name)

\* G flat in octave 10
C24_Witness ==
    /\ fn.op = "semitones"
    /\ fn.arg.name = <<"G", "b">>
    /\ fn.arg.octave = 10
    /\ fn.res.semitones = 117

\* a name that starts with one of a-g and is otherwise well formed
LowerCaseName(name) ==
    /\ Len(name) \in 1..2
    /\ name[1] \in {"a", "b", "c", "d", "e", "f", "g"}
    /\ Len(name) = 2 => name[2] \in {"#", "b"}

(* C25 as stated: a lower-case name gives the semitone of the upper-case   *)
(* name, and the interval table is read at an index in [0, 6].             *)
C25_Original ==
    (fn.op = "semitones" /\ LowerCaseName(fn.arg.name)) =>
       /\ fn.res.semitones = 12 * fn.arg.octave + BaseOfName(fn.arg.name)
       /\ fn.res.index \in 0..6

(* C26: noteToFrets gives every string i the fret note - tuning[i] when    *)
(* that is in [0, fretsNumber] and a negative value otherwise, so that     *)
(* tuning[i] + frets[i] = note on every playable string, and it returns    *)
(* the number of playable strings.                                         *)
C26_FretsOfNote ==
    fn.op = "frets" =>
       /\ DOMAIN fn.res.frets = 1..fn.arg.strings
       /\ \A i \in 1..fn.arg.strings :
             IF fn.arg.note - fn.arg.tuning[i] \in 0..fn.arg.fretsNumber
             THEN fn.arg.tuning[i] + fn.res.frets[i] = fn.arg.note
             ELSE fn.res.frets[i] < 0
       /\ fn.res.valid =
             Cardinality({i \in 1..fn.arg.strings :
                             fn.arg.note - fn.arg.tuning[i]
                                \in 0..fn.arg.fretsNumber})

\* a note three of the six strings can play, one of them beyond fret 12
C26_Witness ==
    /\ fn.op = "frets"
    /\ fn.arg.strings = 6
    /\ fn.arg.fretsNumber = 12
    /\ fn.res.valid = 3
    /\ \E i \in 1..6 : fn.arg.note - fn.arg.tuning[i] > 12
    /\ \E i \in 1..6 : fn.arg.note - fn.arg.tuning[i] < 0

(* C27 as stated: a thread whose callback has recorded an error in         *)
(* rc.status leaves the loop and audioRecord returns 0.                    *)
C27_Original ==
    \A w \in DOMAIN workers :
       (workers[w].pc = "free" /\ workers[w].status # 0) =>
          ReturnValue(workers[w]) = 0

(***************************************************************************)
(* C28: estimatePeriod on a fundamental with its second and third harmonic  *)
(***************************************************************************)
Harmonic == fn.op = "harmonic"

\* |period - p| <= 0.1% of p and |q - 1| <= 0.05
WithinTolerance(res, p) ==
    /\ res.set
    /\ 1000 * Abs(res.period - p) <= p
    /\ 100 * Abs(res.q - NacScale) <= 5 * NacScale

\* the call uses the period range of a session, [2, 129] with 258 samples
SessionRange ==
    /\ fn.arg.minP = DetectMinPeriod(5280)
    /\ fn.arg.maxP = DetectMaxPeriod(5280)

PeriodsLooped ==
    /\ pc = "estimate"
    /\ pc' = "idle"
    /\ last'.kind \in {"silence", "noteon", "hold"}

\* the windows [j, j + period) with j a multiple of period that lie within
\* the block: those with j + period <= size
CompletePeriods(size, period) == size \div period

(* C29 as stated: the loop over the periods visits every complete period   *)
(* of the block, j = 0, period, 2 * period, ... as long as j + period <=    *)
(* available, the last window of a block that is a whole number of periods  *)
(* included: lastPeak advances once for each of them.                      *)
C29_Original ==
    [][PeriodsLooped =>
          lastPeak' = (lastPeak + CompletePeriods(last'.n, last'.period))
                         % PEAKS_SIZE]_vars

(***************************************************************************)
(* C30: quick_raise, peaks and lastPeak                                    *)
(***************************************************************************)
\* a step of detectAnalyze that ran the estimate
AnalyzeStep == pc = "estimate" /\ pc' = "idle"

\* the peak of the m-th period of the block the step was given: the largest
\* magnitude among the samples (m - 1) * period .. m * period - 1
PeriodPeak(m, period) ==
    SetMax({Abs(ringData[(m - 1) * period + i]) : i \in 1..period})

\* the peak of the period analyzed just before the m-th period of the block:
\* for the first period, the value held at peaks[lastPeak] before the step
PrecedingPeak(m, period) ==
    IF m = 1 THEN peaks[lastPeak] ELSE PeriodPeak(m - 1, period)

\* peak - preceding > RAISE_THRESHOLD (0.12)
Raised(peak, preceding) == 100 * (peak - preceding) > 12 * SampleScale

\* the number of periods the loop of the step went through
PeriodsDone == PeakIterations(last'.n, last'.period)

\* what a step of detectAnalyze does to quick_raise, peaks and lastPeak
QuickRaiseStep ==
    AnalyzeStep =>
       IF PeriodsLooped
       THEN /\ last'.quick =
                  (\E m \in 1..PeriodsDone :
                      Raised(PeriodPeak(m, last'.period),
                             PrecedingPeak(m, last'.period)))
            /\ lastPeak' = (lastPeak + PeriodsDone) % PEAKS_SIZE
            /\ peaks'[lastPeak'] = PeriodPeak(PeriodsDone, last'.period)
       ELSE /\ peaks' = peaks
            /\ lastPeak' = lastPeak

\* lastPeak is an index of peaks, and peaks[lastPeak] is 0 at session start
LastPeakInRange ==
    /\ lastPeak \in 0..(PEAKS_SIZE - 1)
    /\ analyzed = 0 => peaks[lastPeak] = 0

(* C30: quick_raise is set exactly when the peak of some analyzed period    *)
(* exceeds by more than RAISE_THRESHOLD the peak of the period analyzed     *)
(* just before it, which for the first period of a block is the value at    *)
(* peaks[lastPeak], the last peak of the previous analyzed block or 0 at    *)
(* session start; lastPeak advances by one modulo PEAKS_SIZE for every      *)
(* period, peaks[lastPeak] then holds the last peak of the block, a call    *)
(* that does not reach the loop leaves both alone, and lastPeak always      *)
(* stays in [0, PEAKS_SIZE - 1].                                           *)
C30_QuickRaise == []LastPeakInRange /\ [][QuickRaiseStep]_vars

\* a quick raise found in a block that followed other analyzed blocks, with
\* lastPeak having gone round the array
C30_Witness ==
    /\ pc = "idle"
    /\ last.kind \in {"silence", "noteon", "hold"}
    /\ last.quick
    /\ analyzed > last.n
    /\ peaks[(lastPeak + 1) % PEAKS_SIZE] # 0

(***************************************************************************)
(* C31: a block whose peaks all stay at or below NOISE_THRESHOLD           *)
(***************************************************************************)
\* no period the loop went through has a peak above NOISE_THRESHOLD (0.10)
NoPeakAboveNoise ==
    \A m \in 1..PeriodsDone :
        10 * PeriodPeak(m, last'.period) <= 1 * SampleScale

(* C31: in a block that passed the quality and playability gates, if no     *)
(* per-period peak exceeds NOISE_THRESHOLD then NoteOff is emitted,         *)
(* lastDetected becomes INVALID and droppedSamples becomes 0, whatever      *)
(* quick_raise and the detected note are.                                  *)
C31_QuietBlockNoteOff ==
    [][(RunStep /\ CallPassedGates /\ NoPeakAboveNoise) =>
          /\ Emitted # <<>>
          /\ \A i \in 1..Len(Emitted) : Emitted[i] = NoteOff
          /\ lastDetected' = INVALID_SEMITONE
          /\ droppedSamples' = 0]_vars

\* a quiet block that is not all zero ended a sounding note
C31_Witness ==
    /\ pc = "idle"
    /\ last.kind = "silence"
    /\ last.prev # INVALID_SEMITONE
    /\ ~last.zero
    /\ lastDetected = INVALID_SEMITONE
    /\ droppedSamples = 0

(***************************************************************************)
(* C32: NoteOn and playable notes                                          *)
(***************************************************************************)
\* the frets of a note on the six strings, 22 frets
FretsOfNote(note) ==
    [s \in 1..GUITAR_STRINGS |->
        IF note - STANDARD_TUNING[s] \in 0..22
        THEN note - STANDARD_TUNING[s] ELSE 0 - 1]

\* every NoteOn so far carries a playable note and that note's frets, and
\* lastDetected is INVALID or a semitone in [19, 65]
NoteOnPlayable ==
    /\ \A i \in 1..Len(events) :
          events[i].type = "NoteOn" =>
             /\ Playable(events[i].note)
             /\ events[i].frets = FretsOfNote(events[i].note)
    /\ lastDetected = INVALID_SEMITONE \/ lastDetected \in 19..65

\* a step of detectAnalyze whose block passed the first gate with a note
\* that has no position
UnplayableBlock == RunStep /\ CallPassedQuality /\ ~Playable(last'.note)

(* C32 as stated: every NoteOn carries a note with at least one playable    *)
(* position under the standard tuning with 22 frets and the frets of that   *)
(* note; lastDetected is always INVALID or in [19, 65]; and a block whose   *)
(* note has no playable position emits no event and leaves lastDetected and *)
(* peaks unchanged.                                                        *)
C32_Original ==
    /\ []NoteOnPlayable
    /\ [][UnplayableBlock =>
             /\ Emitted = <<>>
             /\ lastDetected' = lastDetected
             /\ peaks' = peaks]_vars

(* C32, amended: every NoteOn carries a playable note and its frets, and    *)
(* lastDetected is always INVALID or in [19, 65]; a block whose note has no *)
(* playable position leaves peaks unchanged, and it emits no event and      *)
(* leaves lastDetected unchanged unless the call began with more than a     *)
(* second of dropped samples: then the call emits NoteOff and sets          *)
(* lastDetected to INVALID before the block is looked at.                   *)
C32_UnplayableBlock ==
    /\ []NoteOnPlayable
    /\ [][UnplayableBlock =>
             /\ peaks' = peaks
             /\ IF droppedSamples > rate
                THEN /\ Emitted = <<NoteOff>>
                     /\ lastDetected' = INVALID_SEMITONE
                ELSE /\ Emitted = <<>>
                     /\ lastDetected' = lastDetected]_vars

\* an unplayable block in a call that began stale while a note was on
C32_Witness ==
    /\ pc = "idle"
    /\ last.kind = "unplayable"
    /\ last.stale
    /\ last.prev \in 19..65
    /\ LastEvent = NoteOff
    /\ lastDetected = INVALID_SEMITONE

(***************************************************************************)
(* C33: the sample rate createStream selects                               *)
(***************************************************************************)
\* the rates of the preference list the device supports
PreferredSupported ==
    {k \in 1..4 : SAMPLE_RATES[k] \in fn.arg.supported}

(* C33 as stated: createStream selects the first rate of the preference     *)
(* list (44100, 48000, 96000, 24000) the device supports, falls back to the *)
(* device's nearest supported rate only when it supports none of them, and  *)
(* the selected rate is always one the device supports.                     *)
C33_Original ==
    (fn.op = "stream" /\ fn.arg.supported # {}) =>
       /\ fn.res \in fn.arg.supported
       /\ PreferredSupported # {} =>
             fn.res = SAMPLE_RATES[CHOOSE k \in PreferredSupported :
                                      \A j \in PreferredSupported : k <= j]

(***************************************************************************)
(* C34: the writers of gFrets                                              *)
(***************************************************************************)
\* the thread is in the loop body or about to make the final call: its next
\* step is a detectAnalyze, which writes gFrets without any lock
InDetectAnalyze(w) ==
    \/ workers[w].pc = "analyze"
    \/ workers[w].pc = "clean" /\ Drains(workers[w])

\* the GTK thread is in stopRecording, before guiResetHighlights
InStopReset == guiPc \in {"clickJoin", "applyJoin"} /\ Joinable(recordingThread)

(* C34 as stated: gFrets has a single writer, the one acquisition/detection *)
(* thread, and the GUI thread only reads it: across start, stop and         *)
(* settings-apply no two threads are ever about to write gFrets at the same *)
(* time.                                                                   *)
C34_Original ==
    Cardinality({w \in Workers : InDetectAnalyze(w)})
       + (IF InStopReset THEN 1 ELSE 0) <= 1

(***************************************************************************)
(* C36: the highlights after stopRecording                                 *)
(***************************************************************************)
\* stopRecording has returned and startRecording has not been called since
Stopped == keepRecording = 0 /\ guiPc \in {"idle", "applySet"}

(* C36 as stated: after stopRecording returns and until the next            *)
(* startRecording the highlighted frets stay cleared, gFrets all -1: no     *)
(* NoteOn of the stopped session, its final drain included, is applied      *)
(* after the reset of stopRecording.                                       *)
C36_Original == Stopped => gFrets = NoFrets

(***************************************************************************)
(* C35: assert(writeFrames) in readCallback                                *)
(***************************************************************************)
(* C35 as stated: the assertion assert(writeFrames) of readCallback holds   *)
(* whenever it is reached: past the overflow test, writeFrames =            *)
(* min(freeCount, frameCountMax) is 0 only when frameCountMin and           *)
(* frameCountMax are both 0, whatever the fill level of the ring.  The      *)
(* backend never calls with frameCountMax = 0 here, so the callback never   *)
(* ends in the failed assertion.                                           *)
C35_Original == cb.pc # "aborted"

(***************************************************************************)
(* C37: the bytes readCallback publishes                                   *)
(***************************************************************************)
(* C37 as stated: the number of bytes by which readCallback advances the    *)
(* write pointer of the ring equals the number of bytes it wrote in that    *)
(* invocation, also when soundio_instream_begin_read delivers fewer frames  *)
(* than requested or none, so the analyzer never receives bytes that were   *)
(* not written.                                                            *)
C37_Original ==
    [][writeOffset' # writeOffset =>
          writeOffset' - writeOffset = cb.copied * SizeofFloat]_vars

(***************************************************************************)
(* C38: the arguments of analyzeFiltered                                   *)
(***************************************************************************)
\* the block passed the first filter: analyzeFiltered is called with the
\* block, rate / period and the integer period
GatePassed == fn.op = "passed"

(* C38: whenever estimatePeriod reports a period that passes the gate of    *)
(* detectAnalyze (finite period, intPeriod > 0, quality >= 0.85) the period *)
(* is strictly positive and intPeriod was written by estimatePeriod, so the *)
(* assertions of analyzeFiltered, size > 0, freq > 0 and period > 0, hold   *)
(* on the call.                                                            *)
C38_GatePositive ==
    GatePassed =>
       /\ fn.res.set
       /\ fn.res.period > 0
       /\ fn.arg.n > 0
       /\ Frequency(rate, fn.res.period) > 0
       /\ fn.res.periodInt > 0

\* a block passed the gate with a period fixOctaves had divided
C38_Witness ==
    /\ GatePassed
    /\ fn.res.period > 0
    /\ 2 * fn.res.period <= fn.res.periodInt * PeriodScale

\* C39 (as stated): every index at which fixOctaves reads nac lies within
\* [minP - 1, maxP + 1], the elements computeNac wrote in the same call and
\* the buffer of maxP + 2 elements holds, whatever period findPeak
\* interpolated
C39_Original ==
    fn.op = "octaves" =>
        fn.res.reads \subseteq (fn.arg.minP - 1)..(fn.arg.maxP + 1)

\* C40 (as stated): when audioRecord is in its cleaning section rc.ringBuffer
\* is null or the ring this call created, and no call has handed
\* detectAnalyze or soundio_ring_buffer_destroy a pointer that is neither
C40_Original ==
    /\ \A w \in DOMAIN workers :
          workers[w].pc \in {"clean", "ringDestroy"} =>
              workers[w].ring \in {"null", "live"}
    /\ ~recHist.misuse

=============================================================================
